---- MODULE Spec2Model ----
(***************************************************************************)
(* Verification model of pivaldi/twoway-messaging-demo.                    *)
(*                                                                         *)
(* Four parts of the program are modelled, each with its own               *)
(* specification over its own variables (the variables of the other parts  *)
(* keep their initial values):                                             *)
(*   SpecServer   the discovery server   (internal/node/server.go, Server) *)
(*   SpecClient   the discovery client   (internal/node/server.go, Client) *)
(*   SpecPool     the session pool       (pool.go, connPool)               *)
(*   SpecSession  one outbound session   (peer.go, peerSession)            *)
(***************************************************************************)
EXTENDS Integers, Sequences, FiniteSets, TLC

(***************************************************************************)
(* Bounds of the model.                                                    *)
(***************************************************************************)
\* Number of inbound discovery streams the server handles concurrently.
NumStreams == 2

\* Number of discovery nodes the client connects to.
NumNodes == 2
\* Number of Connect calls and frames read that one behaviour may hold.
MaxEvents == 4

\* Number of tasks calling NewSession concurrently, and of sessions they may
\* create in one behaviour.
NumPoolTasks == 2
MaxSessions == 2
\* Number of tasks calling DoRequest concurrently on the session, and of
\* requests they may issue in one behaviour.
NumReqTasks == 2
MaxReq == 2
\* Number of requests the far end of the inbound stream may issue, and of
\* frames it may write after its Hello, in one behaviour.
MaxInReq == 2
MaxFrames == 3

\* The values one byte of a length or of an integer on the wire can hold:
\* 256 in the code; a stream as long as the largest length a header can
\* declare can be built for a smaller base only.
ByteBase == 4

\* Number of handlers that run a broadcast while one push-stream is being
\* registered.
NumBroadcasters == 2
NumPushStreams == 3

\* Number of Connect calls and of frames read by the read loops of the
\* discovery client, in one behaviour of its connections.
MaxConnEvents == 2

\* A value that is no stream, no nickname entry, no task.
None == 0

(***************************************************************************)
(* The state.                                                              *)
(***************************************************************************)
\* The discovery server.
VARIABLES
    spc,        \* spc[s]: where the handler of inbound stream s stands
    reg,        \* reg[s]: the Register message decoded on stream s
    fail,       \* fail[s]: the reason handed to sendFail on stream s ("" if none)
    plist,      \* plist[s]: the peer list snapshot built for stream s
    online,     \* Server.online : nickname -> onlinePeer
    streams,    \* Server.streams: nickname -> push-stream
    rlock,      \* handlers holding Server.mu for reading (running a broadcast)
    targets,    \* targets[s]: push-streams the broadcast of s has still to write
    out,        \* out[s]: frames the server has written to stream s, in order
    broken,     \* broken[s]: the remote end of s is gone (reads and writes fail)
    closed      \* closed[s]: the server has closed stream s

srvVars == <<spc, reg, fail, plist, online, streams, rlock, targets, out, broken, closed>>

\* The discovery client.
VARIABLES
    cpc,        \* cpc[N]: where the task serving node N stands (Connect, readLoop)
    cur,        \* cur[N]: the event the task of N is processing, and the callbacks
                \* invoked for it so far (cbs)
    ret,        \* ret[N]: where addPeer returns to (the PeerList loop or readLoop)
    clist,      \* clist[N]: entries of the PeerList of N not yet merged
    nodes,      \* Client.nodes: the node identifiers with a stored connection
    peers,      \* Client.peers: nickname -> TrackedPeer
    cmu,        \* the task holding Client.mu (None: free)
    nEvents     \* Connect calls and frames so far

cliVars == <<cpc, cur, ret, clist, nodes, peers, cmu, nEvents>>

\* The session pool.
VARIABLES
    sessions,   \* connPool.sessions: nickname -> session
    sTo,        \* sTo[i]: the nickname session i was dialled to ("" : not created)
    sAlive,     \* sAlive[i]: session i is not dead and its stream is open
    sReader,    \* sReader[i]: the reader task (readLoop) of session i is running
    nSess,      \* sessions created so far
    ppc,        \* ppc[t]: where task t stands in NewSession
    pto,        \* pto[t]: the nickname task t wants a session to
    pnew,       \* pnew[t]: the session dialAndHandshake returned to task t
    rm          \* sessions RemoveSession has deleted and not yet failed

poolVars == <<sessions, sTo, sAlive, sReader, nSess, ppc, pto, pnew, rm>>

\* One outbound session.
VARIABLES
    nextID,     \* peerSession.nextID
    pending,    \* peerSession.pending: reqId -> channel (named by its reqId)
    dead,       \* peerSession.dead
    sstream,    \* the session's stream: "open", "closed" (here), "broken" (remote)
    chBuf,      \* chBuf[c]: the Response buffered in channel c (None: empty)
    chClosed,   \* chClosed[c]: channel c is closed
    written,    \* the reqIds of the Request frames written to the stream, in order
    dpc,        \* dpc[t]: where task t stands in DoRequest
    did,        \* did[t]: the reqId task t allocated
    dres,       \* what the DoRequest call that returned last returned, and to whom
    rdpc,       \* where the reader task (readLoop) stands
    rdch,       \* the channel the reader took from the pending map
    rdresp,     \* the RequestID of the Response the reader is delivering
    fpc         \* fpc[w]: where the failAll called by w stands

sesVars == <<nextID, pending, dead, sstream, chBuf, chClosed, written, dpc, did, dres,
             rdpc, rdch, rdresp, fpc>>

\* Client.ConnectAll: its state is one record, with the fields
\*   camain      where ConnectAll stands: "idle", "wait" (wg.Wait), "done"
\*   caAddrs     nodeAddrs: the nodes ConnectAll was given
\*   capc        capc[N]: where the goroutine of address N stands
\*   caErr       caErr[N]: what Connect returned to it ("" is nil)
\*   firstErr    ConnectAll's firstErr (None is nil)
\*   connected   ConnectAll's connected
\*   caRet       what ConnectAll returned
VARIABLE ca

caVars == <<ca>>
camain == ca.camain
caAddrs == ca.caAddrs
capc == ca.capc
caErr == ca.caErr
firstErr == ca.firstErr
connected == ca.connected
caRet == ca.caRet

\* connPool.Broadcast: its state is one record, with the fields
\*   btable      PeerTable.peers: the nicknames in the peer table
\*   bmain       where Broadcast stands: "idle", "wait" (g.Wait), "done"
\*   bmsg        the msg Broadcast was called with
\*   bsnap       the snapshot peerTable.All() returned
\*   bpc         bpc[n]: where the goroutine for peer n stands
\*   bsent       bsent[n]: the messages SendRequest was called with for peer n
\*   bres        bres[n]: what SendRequest returned for peer n ("" is nil)
\*   gerr        the errgroup's err: the first error returned by a goroutine
\*   bret        what Broadcast returned
VARIABLE bc

bcVars == <<bc>>
btable == bc.btable
bmain == bc.bmain
bmsg == bc.bmsg
bsnap == bc.bsnap
bpc == bc.bpc
bsent == bc.bsent
bres == bc.bres
gerr == bc.gerr
bret == bc.bret

\* connPool.AnnounceDisconnexion: its state is one record, with the fields
\*   adpc        where AnnounceDisconnexion stands
\*   adsnap      its copy of the sessions map: nickname -> session
\*   adleft      the nicknames of the copy the loop has not handled yet
\*   adcur       the nickname the loop is handling
\*   adrm        the session its RemoveSession took out of the pool
\*   goodbyes    goodbyes[i]: Goodbye frames written on the stream of session i
VARIABLE ad

adVars == <<ad>>
adpc == ad.adpc
adsnap == ad.adsnap
adleft == ad.adleft
adcur == ad.adcur
adrm == ad.adrm
goodbyes == ad.goodbyes

\* One inbound stream in connPool.handleStream, and the session at its far
\* end: the state is one record, with the fields
\*   hpc         where the handler of the inbound stream stands
\*   chal        the challenge the handler generated for the stream
\*   hello       the Hello the handler has verified
\*   hin         the frames written to the stream by the far end, in order
\*   hrd         how many of them the handler has read
\*   hout        the RequestIDs of the Responses the handler has written
\*   hrm         the session the handler's RemoveSession took out of the pool
\*   ipc         the far end: "run", "bye" (Goodbye written), "gone"
\*   iwait       the far end's session: the RequestIDs with a waiter
\*   ires        what the DoRequest of each RequestID returned there
\*   idead       the far end's session is dead
\*   ird         how many Responses the far end's reader has read
\*   mwait       mwait[i]: a DoRequest waits on the local session i
\*   mres        mres[i]: what that DoRequest returned
\*   console     connPool.console is set (not nil)
\*   first       the tag of the first frame the handler read
VARIABLE inb

inVars == <<inb>>
hpc == inb.hpc
chal == inb.chal
hello == inb.hello
hin == inb.hin
hrd == inb.hrd
hout == inb.hout
hrm == inb.hrm
ipc == inb.ipc
iwait == inb.iwait
ires == inb.ires
idead == inb.idead
ird == inb.ird
mwait == inb.mwait
mres == inb.mres
console == inb.console
first == inb.first

\* The wire codecs: one message encoded and decoded, or one stream read.  The
\* state is one record, with the fields
\*   wop         "idle", "encoded", "decoded", "read"
\*   wcodec      the codec at work: "node" (discovery) or "session"
\*   wmsg        the message handed to the encoder, with its tag
\*   wire        the bytes written, or the stream handed to the reader
\*   wgot        what the decoder or the reader returned
VARIABLE wf

wfVars == <<wf>>
wop == wf.wop
wcodec == wf.wcodec
wmsg == wf.wmsg
wire == wf.wire
wgot == wf.wgot

\* identity.DeriveKeys called twice on one seed.  The state is one record,
\* with the fields
\*   kpc         "idle", "one" (the first call has returned), "two"
\*   kseed       the seed handed to both calls
\*   krand       what crypto/rand.Reader returns next
\*   krand1      what it would have returned at the first call
\*   kone, ktwo  what the first and the second call returned
VARIABLE dk

dkVars == <<dk>>
kpc == dk.kpc
kseed == dk.kseed
krand == dk.krand
krand1 == dk.krand1
kone == dk.kone
ktwo == dk.ktwo

\* The discovery clients at the far ends of the server's streams.  The state
\* is one record, with the fields
\*   rpc         rpc[s]: where the client of stream s stands: "register"
\*               (Connect awaits RegisterOK), "list" (awaits PeerList),
\*               "loop" (readLoop), "failed" (Connect returned an error)
\*   rrd         rrd[s]: how many frames of out[s] the client has read
\*   rtab        rtab[s]: Client.peers of the client of stream s
VARIABLE ro

roVars == <<ro>>
rpc == ro.rpc
rrd == ro.rrd
rtab == ro.rtab

\* The writes of the discovery server on one push-stream, one Write call at
\* a time.  The state is one record, with the fields
\*   frl         the broadcasts holding Server.mu for reading
\*   fmap        the push-stream is in Server.streams
\*   fwpc        fwpc[t]: where task t stands: "idle", "write", "done"
\*   fq          fq[t]: the Write calls task t has still to make
\*   fwire       what has been written to the push-stream, in order
VARIABLE fw

fwVars == <<fw>>
frl == fw.frl
fmap == fw.fmap
fwpc == fw.fwpc
fq == fw.fq
fwire == fw.fwire

\* The handler the discovery client calls (peerHandler) with the peer table
\* and the pool behind it.  The state is one record, with the fields
\*   reported    reported[N]: the nicknames node N has announced and not
\*               withdrawn
\*   tracked     Client.peers: nickname -> tracked peer, with SeenBy
\*   peerTable   PeerTable.peers: nickname -> peer metadata
\*   outbound    the nicknames connPool.sessions holds a session to
VARIABLE ph

phVars == <<ph>>
reported == ph.reported
tracked == ph.tracked
peerTable == ph.peerTable
outbound == ph.outbound

\* One run of Server.broadcastJoined over the streams map.  The state is one
\* record, with the fields
\*   jpc         where the broadcast stands: "idle", "loop", "done"
\*   jp          the nickname of the new peer
\*   jmap        the nicknames in Server.streams while the read lock is held
\*   jbroken     the nicknames whose push-stream has failed
\*   jtodo       the entries of the map the range loop has still to visit
\*   jlog        the WriteMsg calls made, in order: the nickname written to
\*               and whether the write succeeded
VARIABLE bj

bjVars == <<bj>>
jpc == bj.jpc
jp == bj.jp
jmap == bj.jmap
jbroken == bj.jbroken
jtodo == bj.jtodo
jlog == bj.jlog

\* The writes on the stream of one outbound session, one Write call at a
\* time.  The state is one record, with the fields
\*   writeMu     peerSession.writeMu: the task that holds it (None: free)
\*   swpc        swpc[t]: where task t stands: "idle", "lock", "write",
\*               "unlock", "done"
\*   swq         swq[t]: the Write calls task t has still to make
\*   swbroken    the stream has failed or is closed
\*   swire       what has been written to the stream, in order
VARIABLE sw

swVars == <<sw>>
writeMu == sw.writeMu
swpc == sw.swpc
swq == sw.swq
swbroken == sw.swbroken
swire == sw.swire

\* The connections of the discovery client (Client.Connect, Client.readLoop,
\* Client.Close), call by call:
\*   ypc         ypc[N]: where the task of node N stands: "idle", "stream",
\*               "sent", "ok", "failed" (Connect returned an error), "seed",
\*               "cbJoined", "cbConn", "start", "loop", "defer", "cbDisc"
\*   yret        yret[N]: where addPeer returns to
\*   ystream     ystream[N]: the stream to node N: "none", "open", "closed"
\*               (by this end), "reset" (by the far end)
\*   ycancel     ycancel[N]: the context of the connection is cancelled
\*   yframe      yframe[N]: the answer to the Register that Connect has read
\*   yerr        yerr[N]: what the last Connect returned
\*   ylist       ylist[N]: the entries of the PeerList still to be added
\*   ynodes      Client.nodes: the node ids that have an entry
\*   ypeers      Client.peers, the tracked table
\*   ymu         Client.mu: the task that holds it (None: free)
\*   yloops      yloops[N]: the read loops started for node N
\*   ycbs        ycbs[N]: how often the task of node N has invoked each
\*               callback of the handler
\*   yclose      where Close stands: "idle", "locked", "done"
\*   ytodo       the entries of the nodes map Close has still to visit
\*   yclosed     the nodes whose connection Close has closed
\*   yn          the Connect calls and frames of the behaviour so far
VARIABLE cn

cnVars == <<cn>>
ypc == cn.ypc
yret == cn.yret
ystream == cn.ystream
ycancel == cn.ycancel
yframe == cn.yframe
yerr == cn.yerr
ylist == cn.ylist
ynodes == cn.ynodes
ypeers == cn.ypeers
ymu == cn.ymu
yloops == cn.yloops
ycbs == cn.ycbs
yclose == cn.yclose
ytodo == cn.ytodo
yclosed == cn.yclosed
yn == cn.yn

srvOthers == <<cliVars, poolVars, sesVars, caVars, bcVars, adVars, inVars, wfVars, dkVars, roVars, fwVars, phVars, bjVars, swVars, cnVars>>
cliOthers == <<srvVars, poolVars, sesVars, caVars, bcVars, adVars, inVars, wfVars, dkVars, roVars, fwVars, phVars, bjVars, swVars, cnVars>>
poolOthers == <<srvVars, cliVars, sesVars, caVars, bcVars, adVars, inVars, wfVars, dkVars, roVars, fwVars, phVars, bjVars, swVars, cnVars>>
sesOthers == <<srvVars, cliVars, poolVars, caVars, bcVars, adVars, inVars, wfVars, dkVars, roVars, fwVars, phVars, bjVars, swVars, cnVars>>
caOthers == <<srvVars, poolVars, sesVars, bcVars, adVars, inVars, wfVars, dkVars, roVars, fwVars, phVars, bjVars, swVars, cnVars>>
bcOthers == <<srvVars, cliVars, poolVars, sesVars, caVars, adVars, inVars, wfVars, dkVars, roVars, fwVars, phVars, bjVars, swVars, cnVars>>
adOthers == <<srvVars, cliVars, sesVars, caVars, bcVars, inVars, wfVars, dkVars, roVars, fwVars, phVars, bjVars, swVars, cnVars>>
inOthers == <<srvVars, cliVars, sesVars, caVars, bcVars, adVars, wfVars, dkVars, roVars, fwVars, phVars, bjVars, swVars, cnVars>>
wfOthers == <<srvVars, cliVars, poolVars, sesVars, caVars, bcVars, adVars, inVars, dkVars, roVars, fwVars, phVars, bjVars, swVars, cnVars>>
dkOthers == <<srvVars, cliVars, poolVars, sesVars, caVars, bcVars, adVars, inVars, wfVars, roVars, fwVars, phVars, bjVars, swVars, cnVars>>
roOthers == <<srvVars, cliVars, poolVars, sesVars, caVars, bcVars, adVars, inVars, wfVars, dkVars, fwVars, phVars, bjVars, swVars, cnVars>>
fwOthers == <<srvVars, cliVars, poolVars, sesVars, caVars, bcVars, adVars, inVars, wfVars, dkVars, roVars, phVars, bjVars, swVars, cnVars>>
phOthers == <<srvVars, cliVars, poolVars, sesVars, caVars, bcVars, adVars, inVars, wfVars, dkVars, roVars, fwVars, bjVars, swVars, cnVars>>
bjOthers == <<srvVars, cliVars, poolVars, sesVars, caVars, bcVars, adVars, inVars, wfVars, dkVars, roVars, fwVars, phVars, swVars, cnVars>>
swOthers == <<srvVars, cliVars, poolVars, sesVars, caVars, bcVars, adVars, inVars, wfVars, dkVars, roVars, fwVars, phVars, bjVars, cnVars>>
cnOthers == <<srvVars, cliVars, poolVars, sesVars, caVars, bcVars, adVars, inVars, wfVars, dkVars, roVars, fwVars, phVars, bjVars, swVars>>

(***************************************************************************)
(* Discovery wire: message tags (unnamed/part_003, lines 17-24).           *)
(***************************************************************************)
MsgRegister == 1
MsgRegisterOK == 2
MsgRegisterFail == 3
MsgPeerList == 4
MsgPeerJoined == 5
MsgPeerLeft == 6

(***************************************************************************)
(*                      PART 1: THE DISCOVERY SERVER                       *)
(***************************************************************************)

ServerStreams == 1..NumStreams

\* Config.Peers: nickname -> token (the node's JSON configuration).
ConfigPeers == [n \in {"alice", "bob"} |-> IF n = "alice" THEN "t-a" ELSE "t-b"]

\* Nicknames and tokens a client may put into a Register.
RegNicks == {"alice", "bob", "mallory"}
RegTokens == {"t-a", "t-b"}

\* The first message a client may send: a well-formed Register, a Register
\* whose payload does not decode, or a message with another tag.
FirstMsgs ==
    [typ : {MsgRegister}, decodes : {TRUE}, Nickname : RegNicks, Token : RegTokens]
    \cup {[typ |-> MsgRegister, decodes |-> FALSE, Nickname |-> "", Token |-> ""],
          [typ |-> MsgPeerLeft, decodes |-> TRUE, Nickname |-> "", Token |-> ""]}

NoReg == [typ |-> None, decodes |-> FALSE, Nickname |-> "", Token |-> ""]

\* stream.Conn().RemotePeer(): the transport identifier of the client on s.
RemotePeer(s) == s

\* A frame on the wire.
Frame(typ, nick, peer, list, reason) ==
    [typ |-> typ, nick |-> nick, peer |-> peer, list |-> list, reason |-> reason]

\* WriteMsg on stream t: the frame reaches the stream unless its remote end is
\* gone, in which case the write returns an error and nothing is delivered.
WriteMsg(o, t, f) == IF broken[t] THEN o ELSE [o EXCEPT ![t] = Append(@, f)]

\* sendFail: one RegisterFail frame, the write's error ignored.
sendFail(s, reason) ==
    /\ out' = WriteMsg(out, s, Frame(MsgRegisterFail, "", None, {}, reason))
    /\ fail' = [fail EXCEPT ![s] = reason]

\* The deferred stream.Close() of handleStream, on return.
Return(s) ==
    /\ spc' = [spc EXCEPT ![s] = "done"]
    /\ closed' = [closed EXCEPT ![s] = TRUE]

\* The token check of handleStream (mutant: any token is accepted).
TokenMatchesAny(nick, token) == TRUE
TokenMatches(nick, token) == token = ConfigPeers[nick]

\* The "already online" check of handleStream (mutant: never online).
AlreadyOnlineNever(nick) == FALSE
AlreadyOnline(nick) == nick \in DOMAIN online

\* buildPeerList: one PeerInfo per entry of the online map (mutant: an
\* empty list).
buildPeerListEmpty == {}
buildPeerList == {online[n] : n \in DOMAIN online}

\* Map insertion and deletion.
MapPut(m, k, v) == [x \in (DOMAIN m) \cup {k} |-> IF x = k THEN v ELSE m[x]]
MapDel(m, k) == [x \in (DOMAIN m) \ {k} |-> m[x]]

\* handleStream, lines 70-94: read the first message and validate it.  Nothing
\* shared is written and the stream is not yet in the streams map, so the
\* whole prefix is one step.
HandleRegister(s) ==
    /\ UNCHANGED srvOthers
    /\ spc[s] = "read"
    /\ UNCHANGED <<plist, online, streams, rlock, targets, broken>>
    /\ IF broken[s]
       THEN \* ReadMsg fails
            /\ Return(s)
            /\ UNCHANGED <<reg, fail, out>>
       ELSE \E m \in FirstMsgs :
            IF m.typ # MsgRegister
            THEN sendFail(s, "expected Register message") /\ Return(s)
                 /\ UNCHANGED reg
            ELSE IF ~m.decodes
            THEN sendFail(s, "invalid Register message") /\ Return(s)
                 /\ UNCHANGED reg
            ELSE /\ reg' = [reg EXCEPT ![s] = m]
                 /\ IF m.Nickname \notin DOMAIN ConfigPeers
                    THEN sendFail(s, "unknown nickname") /\ Return(s)
                    ELSE IF ~TokenMatches(m.Nickname, m.Token)
                    THEN sendFail(s, "invalid token") /\ Return(s)
                    ELSE /\ spc' = [spc EXCEPT ![s] = "lock"]
                         /\ UNCHANGED <<fail, out, closed>>

\* handleStream, lines 96-122: the critical section under Server.mu (write
\* lock: no broadcast may hold the read lock).
RegisterLocked(s) ==
    /\ UNCHANGED srvOthers
    /\ spc[s] = "lock"
    /\ rlock = {}
    /\ UNCHANGED <<reg, rlock, targets, broken>>
    /\ IF AlreadyOnline(reg[s].Nickname)
       THEN /\ sendFail(s, "nickname already in use")
            /\ Return(s)
            /\ UNCHANGED <<plist, online, streams>>
       ELSE /\ plist' = [plist EXCEPT ![s] = buildPeerList]
            /\ online' = MapPut(online, reg[s].Nickname,
                                [Nickname |-> reg[s].Nickname, PeerID |-> RemotePeer(s)])
            /\ streams' = MapPut(streams, reg[s].Nickname, s)
            /\ spc' = [spc EXCEPT ![s] = "sendOK"]
            /\ UNCHANGED <<fail, out, closed>>

\* handleStream, lines 124-128: write RegisterOK.
SendRegisterOK(s) ==
    /\ UNCHANGED srvOthers
    /\ spc[s] = "sendOK"
    /\ out' = WriteMsg(out, s, Frame(MsgRegisterOK, "", RemotePeer(s), {}, ""))
    /\ spc' = [spc EXCEPT ![s] = IF broken[s] THEN "rmfail" ELSE "sendList"]
    /\ UNCHANGED <<reg, fail, plist, online, streams, rlock, targets, broken, closed>>

\* handleStream, lines 130-134: write PeerList.
SendPeerList(s) ==
    /\ UNCHANGED srvOthers
    /\ spc[s] = "sendList"
    /\ out' = WriteMsg(out, s, Frame(MsgPeerList, "", None, {p.Nickname : p \in plist[s]}, ""))
    /\ spc' = [spc EXCEPT ![s] = IF broken[s] THEN "rmfail" ELSE "bjoin"]
    /\ plist' = [plist EXCEPT ![s] = {}]
    /\ UNCHANGED <<reg, fail, online, streams, rlock, targets, broken, closed>>

\* removePeer: both maps lose the nickname, under the write lock (mutant: the
\* push-stream stays in the streams map).
removePeerOnlineOnly(nick) ==
    /\ rlock = {}
    /\ online' = MapDel(online, nick)
    /\ streams' = streams

removePeer(nick) ==
    /\ rlock = {}
    /\ online' = MapDel(online, nick)
    /\ streams' = MapDel(streams, nick)

\* handleStream, lines 126-127 and 132-133: a failed write removes the peer
\* and the handler returns.
RemoveAfterWriteFail(s) ==
    /\ UNCHANGED srvOthers
    /\ spc[s] = "rmfail"
    /\ removePeer(reg[s].Nickname)
    /\ Return(s)
    /\ UNCHANGED <<reg, fail, plist, rlock, targets, out, broken>>

\* The frame a broadcast of handler s writes: PeerJoined for its peer
\* (broadcastJoined, lines 179-186) or PeerLeft (broadcastLeft, lines 199-200).
BroadcastFrame(s, joined) ==
    IF joined THEN Frame(MsgPeerJoined, reg[s].Nickname, RemotePeer(s), {}, "")
              ELSE Frame(MsgPeerLeft, reg[s].Nickname, None, {}, "")

\* The push-streams broadcastJoined writes to: those of every other nickname
\* (line 192; mutant: the new peer's own stream as well).
JoinedTargetsAll(nick) == {streams[n] : n \in DOMAIN streams}
JoinedTargets(nick) == {streams[n] : n \in (DOMAIN streams) \ {nick}}

\* The push-streams broadcastLeft writes to: every stream of the map (mutant:
\* none).
LeftTargetsNone == {}
LeftTargets == {streams[n] : n \in DOMAIN streams}

\* The broadcast loop of handler s over the push-streams T still to write
\* (lines 191-195, 205-207): one WriteMsg to one stream, in the map's arbitrary
\* order, its error ignored.  The read lock is held from the first write to the
\* last: taking it and releasing it (deferred RUnlock) change nothing another
\* task can see but the point at which a writer may enter, so they are one step
\* with the first and the last write.
BroadcastLoop(s, T, joined, after) ==
    IF T = {}
    THEN /\ rlock' = rlock \ {s}
         /\ targets' = [targets EXCEPT ![s] = {}]
         /\ out' = out
         /\ after
    ELSE \E t \in T :
         /\ out' = WriteMsg(out, t, BroadcastFrame(s, joined))
         /\ targets' = [targets EXCEPT ![s] = T \ {t}]
         /\ IF T = {t}
            THEN rlock' = rlock \ {s} /\ after
            ELSE /\ rlock' = rlock \cup {s}
                 /\ spc' = [spc EXCEPT ![s] = IF joined THEN "bjoinW" ELSE "bleftW"]
                 /\ closed' = closed

\* After broadcastJoined the handler blocks in stream.Read (lines 140-146).
BlockInRead(s) ==
    /\ spc' = [spc EXCEPT ![s] = "wait"]
    /\ closed' = closed

\* broadcastJoined, lines 178-196, from its RLock on: the first iteration
\* (over the streams map as it stands) or a later one.
BroadcastJoined(s) ==
    /\ UNCHANGED srvOthers
    /\ spc[s] \in {"bjoin", "bjoinW"}
    /\ BroadcastLoop(s, IF spc[s] = "bjoin" THEN JoinedTargets(reg[s].Nickname)
                                           ELSE targets[s],
                     TRUE, BlockInRead(s))
    /\ UNCHANGED <<reg, fail, plist, online, streams, broken>>

\* handleStream, lines 140-149: stream.Read fails (EOF or error); removePeer.
ReadFailsRemove(s) ==
    /\ UNCHANGED srvOthers
    /\ spc[s] = "wait"
    /\ broken[s]
    /\ removePeer(reg[s].Nickname)
    /\ spc' = [spc EXCEPT ![s] = "bleft"]
    /\ UNCHANGED <<reg, fail, plist, rlock, targets, out, broken, closed>>

\* broadcastLeft, lines 198-208, from its RLock on: the first iteration or a
\* later one; after the last, handleStream returns.
BroadcastLeft(s) ==
    /\ UNCHANGED srvOthers
    /\ spc[s] \in {"bleft", "bleftW"}
    /\ BroadcastLoop(s, IF spc[s] = "bleft" THEN LeftTargets ELSE targets[s],
                     FALSE, Return(s))
    /\ UNCHANGED <<reg, fail, plist, online, streams, broken>>

\* The environment: the client of stream s disconnects, or the stream fails.
\* Between the validation and the insertion into the maps a break changes
\* nothing anyone observes before the next write, so it is taken then.
StreamBreaks(s) ==
    /\ UNCHANGED srvOthers
    /\ ~broken[s]
    /\ spc[s] \notin {"lock", "done"}
    /\ broken' = [broken EXCEPT ![s] = TRUE]
    /\ UNCHANGED <<spc, reg, fail, plist, online, streams, rlock, targets, out, closed>>

srvInit ==
    /\ spc = [s \in ServerStreams |-> "read"]
    /\ reg = [s \in ServerStreams |-> NoReg]
    /\ fail = [s \in ServerStreams |-> ""]
    /\ plist = [s \in ServerStreams |-> {}]
    /\ online = <<>>
    /\ streams = <<>>
    /\ rlock = {}
    /\ targets = [s \in ServerStreams |-> {}]
    /\ out = [s \in ServerStreams |-> <<>>]
    /\ broken = [s \in ServerStreams |-> FALSE]
    /\ closed = [s \in ServerStreams |-> FALSE]

(***************************************************************************)
(*                      PART 2: THE DISCOVERY CLIENT                       *)
(***************************************************************************)

Nodes == 1..NumNodes

\* What a node may report: a nickname, its addresses, and its identity (the
\* PeerID, HPKEPub and KeyID fields of PeerInfo, which are only ever copied
\* together).
TrackNicks == {"bob", "carol"}
\* bob is reported under either of two addresses, carol under one.
AddrVals(n) == IF n = "bob" THEN {"addr1", "addr2"} ELSE {"addr1"}
KeyOf(n) == IF n = "bob" THEN "key-bob" ELSE "key-carol"
PeerInfos ==
    UNION {{[Nickname |-> n, Addrs |-> a, Key |-> KeyOf(n)] : a \in AddrVals(n)} : n \in TrackNicks}

NoMsg == [typ |-> None, Nickname |-> "", Addrs |-> "", Key |-> "", cbs |-> 0]
JoinedMsg(p) ==
    [typ |-> MsgPeerJoined, Nickname |-> p.Nickname, Addrs |-> p.Addrs, Key |-> p.Key, cbs |-> 0]
LeftMsg(n) == [typ |-> MsgPeerLeft, Nickname |-> n, Addrs |-> "", Key |-> "", cbs |-> 0]

\* The peer lists a node may send: at most one entry per nickname.
PeerLists == {L \in SUBSET PeerInfos : \A p, q \in L : p.Nickname = q.Nickname => p = q}

\* The states in which a task is invoking a handler callback.
CallbackPCs == {"cbJoined", "cbLeft", "cbConn", "cbDisc"}

\* addPeer, lines 393-403: the table after a report of `info` by node N
\* (mutants: the addresses of an existing entry are kept; an existing entry
\* is replaced by a fresh one).
addPeerKeepAddrs(tab, info, N) ==
    IF info.Nickname \in DOMAIN tab
    THEN [tab EXCEPT ![info.Nickname] = [@ EXCEPT !.SeenBy = @ \cup {N}]]
    ELSE MapPut(tab, info.Nickname,
                [Nickname |-> info.Nickname, Addrs |-> info.Addrs, Key |-> info.Key,
                 SeenBy |-> {N}])
addPeerEntry(tab, info, N) ==
    IF info.Nickname \in DOMAIN tab
    THEN [tab EXCEPT ![info.Nickname] =
              [@ EXCEPT !.SeenBy = @ \cup {N}, !.Addrs = info.Addrs]]
    ELSE MapPut(tab, info.Nickname,
                [Nickname |-> info.Nickname, Addrs |-> info.Addrs, Key |-> info.Key,
                 SeenBy |-> {N}])

\* removePeerFromNode, lines 414-424: the table after PeerLeft(nick) from N
\* (mutants: the entry is dropped whatever is left of SeenBy; the entry is
\* never dropped).
removeEntryAlways(tab, nick, N) ==
    IF nick \notin DOMAIN tab THEN tab ELSE MapDel(tab, nick)
removeEntryNever(tab, nick, N) ==
    IF nick \notin DOMAIN tab THEN tab
    ELSE [tab EXCEPT ![nick] = [@ EXCEPT !.SeenBy = @ \ {N}]]
removeEntry(tab, nick, N) ==
    IF nick \notin DOMAIN tab THEN tab
    ELSE IF tab[nick].SeenBy \ {N} = {}
         THEN MapDel(tab, nick)
         ELSE [tab EXCEPT ![nick] = [@ EXCEPT !.SeenBy = @ \ {N}]]

\* GetPeer and GetAllPeers, lines 479-501: snapshots of the tracked table.
GetPeer(nick) ==
    IF nick \in DOMAIN peers
    THEN [ok |-> TRUE, Nickname |-> nick, Addrs |-> peers[nick].Addrs, Key |-> peers[nick].Key]
    ELSE [ok |-> FALSE, Nickname |-> "", Addrs |-> "", Key |-> ""]
GetAllPeers == {peers[n].Nickname : n \in DOMAIN peers}

\* The task of node N invokes a callback of the handler (Client.handler) for
\* the event it is processing.
Invoke(N) == cur' = [cur EXCEPT ![N] = [@ EXCEPT !.cbs = @ + 1]]

\* addPeer, lines 389-404: lock, update the table; the lock stays held (the
\* Unlock is deferred) while the callback of line 406 is invoked.
addPeer(info, N, back) ==
    /\ cmu = None
    /\ cmu' = N
    /\ peers' = addPeerEntry(peers, info, N)
    /\ cur' = [cur EXCEPT ![N] = JoinedMsg(info)]
    /\ ret' = [ret EXCEPT ![N] = back]
    /\ cpc' = [cpc EXCEPT ![N] = "cbJoined"]

\* Connect, lines 290-371: dial, Register, read RegisterOK and PeerList, store
\* the connection under the lock.  Any failure on the way returns an error and
\* leaves the client as it was.  With an empty list the loop of lines 374-376
\* is skipped and OnNodeConnected is due.
ConnectStores(N) ==
    \E L \in PeerLists :
        /\ cmu = None
        /\ nodes' = nodes \cup {N}
        /\ clist' = [clist EXCEPT ![N] = L]
        /\ cpc' = [cpc EXCEPT ![N] = IF L = {} THEN "cbConn" ELSE "seed"]
        /\ UNCHANGED <<cur, ret, peers, cmu>>

Connect(N) ==
    /\ UNCHANGED cliOthers
    /\ cpc[N] = "idle"
    /\ nEvents < MaxEvents
    /\ nEvents' = nEvents + 1
    /\ \/ \* dial, write or read error, RegisterFail, unexpected frame
          UNCHANGED <<cpc, cur, ret, clist, nodes, peers, cmu>>
       \/ ConnectStores(N)

\* Connect, lines 373-376: addPeer for the next entry of the PeerList.
SeedPeer(N) ==
    /\ UNCHANGED cliOthers
    /\ cpc[N] = "seed"
    /\ \E p \in clist[N] :
        /\ addPeer(p, N, IF clist[N] = {p} THEN "cbConn" ELSE "seed")
        /\ clist' = [clist EXCEPT ![N] = @ \ {p}]
    /\ UNCHANGED <<nodes, nEvents>>

\* Connect, lines 378-386: the handler's OnNodeConnected runs; Connect starts
\* readLoop and returns.
OnNodeConnected(N) ==
    /\ UNCHANGED cliOthers
    /\ cpc[N] = "cbConn"
    /\ cpc' = [cpc EXCEPT ![N] = "loop"]
    /\ UNCHANGED <<cur, ret, clist, nodes, peers, cmu, nEvents>>

\* readLoop, lines 456-467: a PeerJoined frame arrives; addPeer.
RecvPeerJoined(N) ==
    /\ UNCHANGED cliOthers
    /\ cpc[N] = "loop"
    /\ nEvents < MaxEvents
    /\ nEvents' = nEvents + 1
    /\ \E p \in PeerInfos : addPeer(p, N, "loop")
    /\ UNCHANGED <<clist, nodes>>

\* addPeer, lines 405-407: the handler's OnPeerJoined runs.
OnPeerJoined(N) ==
    /\ UNCHANGED cliOthers
    /\ cpc[N] = "cbJoined"
    /\ Invoke(N)
    /\ cpc' = [cpc EXCEPT ![N] = "retJoined"]
    /\ UNCHANGED <<ret, clist, nodes, peers, cmu, nEvents>>

\* addPeer returns: its deferred Unlock releases the lock.
AddPeerReturn(N) ==
    /\ UNCHANGED cliOthers
    /\ cpc[N] = "retJoined"
    /\ cmu' = IF cmu = N THEN None ELSE cmu
    /\ cur' = [cur EXCEPT ![N] = NoMsg]
    /\ cpc' = [cpc EXCEPT ![N] = ret[N]]
    /\ ret' = [ret EXCEPT ![N] = "idle"]
    /\ UNCHANGED <<clist, nodes, peers, nEvents>>

\* readLoop, lines 469-474, and removePeerFromNode, lines 410-424: a PeerLeft
\* frame arrives.  For an untracked nickname the function returns without a
\* callback; else the table is updated and the callback is due.  Either way
\* the lock is held until the function returns.
RecvPeerLeft(N) ==
    /\ UNCHANGED cliOthers
    /\ cpc[N] = "loop"
    /\ nEvents < MaxEvents
    /\ nEvents' = nEvents + 1
    /\ cmu = None
    /\ cmu' = N
    /\ \E n \in TrackNicks :
        /\ peers' = removeEntry(peers, n, N)
        /\ cur' = [cur EXCEPT ![N] = LeftMsg(n)]
        /\ cpc' = [cpc EXCEPT ![N] = IF n \in DOMAIN peers THEN "cbLeft" ELSE "retLeft"]
    /\ UNCHANGED <<ret, clist, nodes>>

\* removePeerFromNode, lines 426-428: the handler's OnPeerLeft runs.
OnPeerLeft(N) ==
    /\ UNCHANGED cliOthers
    /\ cpc[N] = "cbLeft"
    /\ Invoke(N)
    /\ cpc' = [cpc EXCEPT ![N] = "retLeft"]
    /\ UNCHANGED <<ret, clist, nodes, peers, cmu, nEvents>>

\* removePeerFromNode returns: its deferred Unlock releases the lock.
RemovePeerReturn(N) ==
    /\ UNCHANGED cliOthers
    /\ cpc[N] = "retLeft"
    /\ cmu' = IF cmu = N THEN None ELSE cmu
    /\ cur' = [cur EXCEPT ![N] = NoMsg]
    /\ cpc' = [cpc EXCEPT ![N] = "loop"]
    /\ UNCHANGED <<ret, clist, nodes, peers, nEvents>>

\* What the deferred function of readLoop does to the tracked table when the
\* connection to N ends: nothing (lines 432-441 touch only the nodes map).
peersAfterDisconnect(tab, N) == tab

\* readLoop, lines 443-453 and 432-437: ReadMsg fails (error, EOF, or the
\* stream was closed by Close) or the context is done; the deferred function
\* closes the stream and deletes the node under the lock.
ReadLoopExit(N) ==
    /\ UNCHANGED cliOthers
    /\ cpc[N] = "loop"
    /\ cmu = None
    /\ nodes' = nodes \ {N}
    /\ peers' = peersAfterDisconnect(peers, N)
    /\ cpc' = [cpc EXCEPT ![N] = "cbDisc"]
    /\ UNCHANGED <<cur, ret, clist, cmu, nEvents>>

\* readLoop, lines 438-440: the handler's OnNodeDisconnected runs; the task
\* ends.
OnNodeDisconnected(N) ==
    /\ UNCHANGED cliOthers
    /\ cpc[N] = "cbDisc"
    /\ cpc' = [cpc EXCEPT ![N] = "idle"]
    /\ UNCHANGED <<cur, ret, clist, nodes, peers, cmu, nEvents>>

cliInit ==
    /\ cpc = [N \in Nodes |-> "idle"]
    /\ cur = [N \in Nodes |-> NoMsg]
    /\ ret = [N \in Nodes |-> "idle"]
    /\ clist = [N \in Nodes |-> {}]
    /\ nodes = {}
    /\ peers = <<>>
    /\ cmu = None
    /\ nEvents = 0

(***************************************************************************)
(*                     PART 2b: Client.ConnectAll                          *)
(* (internal/node/server.go, lines 514-550).  One goroutine per address     *)
(* calls Connect; the Connect of Part 2 does the work.                      *)
(***************************************************************************)
\* The errors Connect returns (lines 293-353).
ConnectErrors == {"connect to node", "registration failed"}

NoErr == [node |-> None, err |-> ""]
\* Line 531: fmt.Errorf("node %s: %w", addr, err).
NodeErr(N, e) == [node |-> N, err |-> e]

\* Lines 516-518 and 521-523: the goroutines are started, one per address.
ConnectAllStart ==
    /\ UNCHANGED caOthers
    /\ camain = "idle"
    /\ \E A \in (SUBSET Nodes) \ {{}} :
        ca' = [ca EXCEPT !.caAddrs = A,
                         !.capc = [N \in Nodes |-> IF N \in A THEN "call" ELSE "none"],
                         !.camain = "wait"]
    /\ UNCHANGED cliVars

\* Line 529, Connect returning an error (lines 293-353): the client is left
\* as it was.
CAConnectFails(N) ==
    /\ UNCHANGED caOthers
    /\ capc[N] = "call"
    /\ \E e \in ConnectErrors :
        ca' = [ca EXCEPT !.caErr[N] = e, !.capc[N] = "record"]
    /\ UNCHANGED cliVars

\* Line 529, Connect getting as far as storing the connection (lines
\* 290-371); it goes on with the PeerList and OnNodeConnected (Part 2).
CAConnectStores(N) ==
    /\ UNCHANGED caOthers
    /\ capc[N] = "call"
    /\ cpc[N] = "idle"
    /\ ConnectStores(N)
    /\ UNCHANGED nEvents
    /\ ca' = [ca EXCEPT !.capc[N] = "inConnect"]

\* Lines 383-386 and 529: Connect has started readLoop and returns nil.
CAConnectReturns(N) ==
    /\ UNCHANGED caOthers
    /\ capc[N] = "inConnect"
    /\ cpc[N] = "loop"
    /\ ca' = [ca EXCEPT !.capc[N] = "record"]
    /\ UNCHANGED cliVars

\* Lines 530-539 and 524: under errMu, the first error is kept or the success
\* counted; then wg.Done.
CARecord(N) ==
    /\ UNCHANGED caOthers
    /\ capc[N] = "record"
    /\ IF caErr[N] # ""
       THEN ca' = [ca EXCEPT
                    !.firstErr = IF firstErr = NoErr THEN NodeErr(N, caErr[N]) ELSE firstErr,
                    !.capc[N] = "done"]
       ELSE ca' = [ca EXCEPT !.connected = connected + 1, !.capc[N] = "done"]
    /\ UNCHANGED cliVars

\* Lines 545-549: what ConnectAll returns (mutant: any recorded failure is
\* returned).
ConnectAllResultAnyErr(n, e) ==
    IF e # NoErr THEN [nil |-> FALSE, wraps |-> e] ELSE [nil |-> TRUE, wraps |-> NoErr]
ConnectAllResult(n, e) ==
    IF n = 0 THEN [nil |-> FALSE, wraps |-> e] ELSE [nil |-> TRUE, wraps |-> NoErr]

\* Lines 543-549: wg.Wait returns when every goroutine is done; ConnectAll
\* returns.
ConnectAllReturn ==
    /\ UNCHANGED caOthers
    /\ camain = "wait"
    /\ \A N \in caAddrs : capc[N] = "done"
    /\ ca' = [ca EXCEPT !.caRet = ConnectAllResult(connected, firstErr),
                        !.camain = "done"]
    /\ UNCHANGED cliVars

caInit ==
    ca = [camain |-> "idle",
          caAddrs |-> {},
          capc |-> [N \in Nodes |-> "none"],
          caErr |-> [N \in Nodes |-> ""],
          firstErr |-> NoErr,
          connected |-> 0,
          caRet |-> [nil |-> TRUE, wraps |-> NoErr]]

(***************************************************************************)
(*                        PART 3: THE SESSION POOL                         *)
(***************************************************************************)
PoolTasks == 1..NumPoolTasks
SessionIds == 1..MaxSessions

\* The nicknames of the peer table sessions are opened to.
PoolNicks == {"bob", "carol"}

\* peerSession.isAlive of the session stored for a nickname (nil-safe).
isAliveIn(nick) == nick \in DOMAIN sessions /\ sAlive[sessions[nick]]

\* NewSession, lines 59-64, with GetSession, lines 78-87: under the pool
\* mutex, look the nickname up; an alive session is returned, else a dial is
\* due.
NewSessionGet(t) ==
    /\ UNCHANGED poolOthers
    /\ ppc[t] = "idle"
    /\ \E to \in PoolNicks :
        IF isAliveIn(to)
        THEN UNCHANGED <<ppc, pto>>
        ELSE /\ pto' = [pto EXCEPT ![t] = to]
             /\ ppc' = [ppc EXCEPT ![t] = "dial"]
    /\ UNCHANGED <<sessions, sTo, sAlive, sReader, nSess, pnew, rm>>

\* dialAndHandshake, lines 185-240, failing: the stream cannot be opened, or
\* the Challenge is bad, or Hello cannot be written.  NewSession returns the
\* error (lines 66-69).
DialFails(t) ==
    /\ UNCHANGED poolOthers
    /\ ppc[t] = "dial"
    /\ ppc' = [ppc EXCEPT ![t] = "idle"]
    /\ pto' = [pto EXCEPT ![t] = ""]
    /\ UNCHANGED <<sessions, sTo, sAlive, sReader, nSess, pnew, rm>>

\* dialAndHandshake, lines 185-240, succeeding: a new session with an open
\* stream, its reader task started (line 233).
DialAndHandshake(t) ==
    /\ UNCHANGED poolOthers
    /\ ppc[t] = "dial"
    /\ nSess < MaxSessions
    /\ nSess' = nSess + 1
    /\ sTo' = [sTo EXCEPT ![nSess + 1] = pto[t]]
    /\ sAlive' = [sAlive EXCEPT ![nSess + 1] = TRUE]
    /\ sReader' = [sReader EXCEPT ![nSess + 1] = TRUE]
    /\ pnew' = [pnew EXCEPT ![t] = nSess + 1]
    /\ ppc' = [ppc EXCEPT ![t] = "store"]
    /\ UNCHANGED <<sessions, pto, rm>>

\* NewSession, lines 71-75: store the new session under the pool mutex.
StoreSession(t) ==
    /\ UNCHANGED poolOthers
    /\ ppc[t] = "store"
    /\ sessions' = MapPut(sessions, pto[t], pnew[t])
    /\ ppc' = [ppc EXCEPT ![t] = "idle"]
    /\ pto' = [pto EXCEPT ![t] = ""]
    /\ pnew' = [pnew EXCEPT ![t] = None]
    /\ UNCHANGED <<sTo, sAlive, sReader, nSess, rm>>

\* RemoveSession, lines 89-93: under the pool mutex, take the session of a
\* nickname out of the map (called on PeerLeft, on Goodbye and by
\* AnnounceDisconnexion).
RemoveSessionDelete(nick) ==
    /\ UNCHANGED poolOthers
    /\ nick \in DOMAIN sessions
    /\ rm' = rm \cup {sessions[nick]}
    /\ sessions' = MapDel(sessions, nick)
    /\ UNCHANGED <<sTo, sAlive, sReader, nSess, ppc, pto, pnew>>

\* RemoveSession, lines 95-97: failAll on the session taken out (peer.go,
\* lines 93-96: dead is set and the stream closed).
RemoveSessionFailAll(i) ==
    /\ UNCHANGED poolOthers
    /\ i \in rm
    /\ rm' = rm \ {i}
    /\ sAlive' = [sAlive EXCEPT ![i] = FALSE]
    /\ UNCHANGED <<sessions, sTo, sReader, nSess, ppc, pto, pnew>>

\* readLoop of session i, peer.go lines 108-112: readMsg fails (the remote
\* closed the stream, or failAll closed it here); failAll, and the reader ends.
PoolReaderExit(i) ==
    /\ UNCHANGED poolOthers
    /\ sReader[i]
    /\ sReader' = [sReader EXCEPT ![i] = FALSE]
    /\ sAlive' = [sAlive EXCEPT ![i] = FALSE]
    /\ UNCHANGED <<sessions, sTo, nSess, ppc, pto, pnew, rm>>

poolInit ==
    /\ sessions = <<>>
    /\ sTo = [i \in SessionIds |-> ""]
    /\ sAlive = [i \in SessionIds |-> FALSE]
    /\ sReader = [i \in SessionIds |-> FALSE]
    /\ nSess = 0
    /\ ppc = [t \in PoolTasks |-> "idle"]
    /\ pto = [t \in PoolTasks |-> ""]
    /\ pnew = [t \in PoolTasks |-> None]
    /\ rm = {}

(***************************************************************************)
(*                PART 3a: connPool.AnnounceDisconnexion                   *)
(* (pool.go, lines 259-281), on the pool of Part 3.                         *)
(***************************************************************************)
\* Lines 261-267: the sessions map is copied under the pool mutex.
AnnounceSnapshot ==
    /\ UNCHANGED adOthers
    /\ adpc = "idle"
    /\ ad' = [ad EXCEPT !.adsnap = sessions,
                        !.adleft = DOMAIN sessions,
                        !.adpc = IF DOMAIN sessions = {} THEN "done" ELSE "next"]
    /\ UNCHANGED poolVars

\* Lines 272-273: the loop takes a session of the copy (a map is ranged over
\* in any order) and asks whether it is alive.
AnnounceIsAlive(nick) ==
    /\ UNCHANGED adOthers
    /\ adpc = "next"
    /\ nick \in adleft
    /\ ad' = [ad EXCEPT !.adcur = nick,
                        !.adleft = adleft \ {nick},
                        !.adpc = IF sAlive[adsnap[nick]] THEN "write" ELSE "remove"]
    /\ UNCHANGED poolVars

\* Lines 274-277: the Goodbye frame is written under writeMu; the error of a
\* write on a stream closed meanwhile is dropped.
AnnounceWriteGoodbye ==
    /\ UNCHANGED adOthers
    /\ adpc = "write"
    /\ ad' = [ad EXCEPT !.goodbyes = IF sAlive[adsnap[adcur]]
                                     THEN [goodbyes EXCEPT ![adsnap[adcur]] = @ + 1]
                                     ELSE goodbyes,
                        !.adpc = "remove"]
    /\ UNCHANGED poolVars

\* Line 279 with RemoveSession, lines 89-93: under the pool mutex, whatever
\* session the pool holds for the nickname is taken out.
AnnounceRemove ==
    /\ UNCHANGED adOthers
    /\ adpc = "remove"
    /\ ad' = [ad EXCEPT !.adrm = IF adcur \in DOMAIN sessions THEN sessions[adcur] ELSE None,
                        !.adpc = "failAll"]
    /\ sessions' = MapDel(sessions, adcur)
    /\ UNCHANGED <<sTo, sAlive, sReader, nSess, ppc, pto, pnew, rm>>

\* RemoveSession, lines 95-97: failAll on the session taken out (peer.go,
\* lines 93-104); the loop goes on, or AnnounceDisconnexion returns.
AnnounceFailAll ==
    /\ UNCHANGED adOthers
    /\ adpc = "failAll"
    /\ sAlive' = IF adrm # None THEN [sAlive EXCEPT ![adrm] = FALSE] ELSE sAlive
    /\ ad' = [ad EXCEPT !.adrm = None,
                        !.adcur = "",
                        !.adpc = IF adleft = {} THEN "done" ELSE "next"]
    /\ UNCHANGED <<sessions, sTo, sReader, nSess, ppc, pto, pnew, rm>>

adInit ==
    ad = [adpc |-> "idle",
          adsnap |-> <<>>,
          adleft |-> {},
          adcur |-> "",
          adrm |-> None,
          goodbyes |-> [i \in SessionIds |-> 0]]

(***************************************************************************)
(*                     PART 3b: connPool.Broadcast                         *)
(* (pool.go, lines 160-183).  SendRequest (lines 104-158) appears with its  *)
(* argument and its result; its work on the pool and on the session is      *)
(* Parts 3 and 4.                                                           *)
(***************************************************************************)
\* The pool's own nickname, and the nicknames the peer table may hold.
SelfNick == "me"
TableNicks == {"me", "bob", "carol"}

\* The texts broadcast (a text is a sequence of words).
BroadcastTexts == {<<"hi">>, <<"[BROADCAST]", "hi">>}

\* The errors SendRequest returns.
SendErrors == {"connect to", "connection closed"}

NoSendErr == [node |-> "", err |-> ""]
\* Lines 174-176: fmt.Errorf("to %s: %w", to.Nickname, err).
SendErr(n, e) == [node |-> n, err |-> e]

\* Line 164: "[BROADCAST]" + msg (mutant: the text goes out untagged).
Untagged(msg) == msg
Tagged(msg) == <<"[BROADCAST]">> \o msg

\* Lines 166-169: the peers of the snapshot a send goes to.
BroadcastTargets(snap) == snap \ {SelfNick}

\* PeerTable.Add and PeerTable.Remove (peer.go, lines 39-51), called by the
\* discovery handler at any time.
PeerTableAdd(n) ==
    /\ UNCHANGED bcOthers
    /\ n \notin btable
    /\ bc' = [bc EXCEPT !.btable = btable \cup {n}]

PeerTableRemove(n) ==
    /\ UNCHANGED bcOthers
    /\ n \in btable
    /\ bc' = [bc EXCEPT !.btable = btable \ {n}]

\* Lines 161-180: the snapshot is taken (PeerTable.All, peer.go lines 64-73)
\* and one goroutine started for every peer of it but self.
BroadcastStart ==
    /\ UNCHANGED bcOthers
    /\ bmain = "idle"
    /\ \E m \in BroadcastTexts :
        bc' = [bc EXCEPT
                !.bmsg = m,
                !.bsnap = btable,
                !.bpc = [n \in TableNicks |->
                            IF n \in BroadcastTargets(btable) THEN "send" ELSE "none"],
                !.bmain = "wait"]

\* Line 173: SendRequest(to, broadcastMsg) returns nil or an error.
BroadcastSend(n) ==
    /\ UNCHANGED bcOthers
    /\ bpc[n] = "send"
    /\ \E e \in SendErrors \cup {""} :
        bc' = [bc EXCEPT !.bsent[n] = Append(@, Tagged(bmsg)),
                         !.bres[n] = e,
                         !.bpc[n] = "record"]

\* Lines 174-178 and errgroup.Go: the goroutine returns; the group keeps the
\* first error returned, and the goroutine is done.
BroadcastRecord(n) ==
    /\ UNCHANGED bcOthers
    /\ bpc[n] = "record"
    /\ bc' = [bc EXCEPT
                !.gerr = IF bres[n] # "" /\ gerr = NoSendErr THEN SendErr(n, bres[n]) ELSE gerr,
                !.bpc[n] = "done"]

\* Line 182: g.Wait returns the group's error once every goroutine is done.
BroadcastReturn ==
    /\ UNCHANGED bcOthers
    /\ bmain = "wait"
    /\ \A n \in TableNicks : bpc[n] \in {"none", "done"}
    /\ bc' = [bc EXCEPT !.bret = gerr, !.bmain = "done"]

bcInit ==
    bc = [btable |-> TableNicks,
          bmain |-> "idle",
          bmsg |-> <<>>,
          bsnap |-> {},
          bpc |-> [n \in TableNicks |-> "none"],
          bsent |-> [n \in TableNicks |-> <<>>],
          bres |-> [n \in TableNicks |-> ""],
          gerr |-> NoSendErr,
          bret |-> NoSendErr]

(***************************************************************************)
(*                      PART 4: ONE OUTBOUND SESSION                       *)
(***************************************************************************)
ReqTasks == 1..NumReqTasks
ReqIds == 1..MaxReq

\* Who may call failAll: the reader task, RemoveSession called for a
\* PeerLeft or a Goodbye, and the RemoveSession of AnnounceDisconnexion.
FailAllCallers == {"reader", "remover", "announcer"}

NoRes == [task |-> None, kind |-> "", id |-> None]

\* DoRequest returns to task t: a Response (its RequestID), or an error.
Returns(t, kind, id) == [task |-> t, kind |-> kind, id |-> id]

\* atomic.AddUint64(&nextID, delta): the new value (mutant: the increment is
\* lost).  The counter has 64 bits; it stays far below 2^64 here.
AddUint64Lost(x, delta) == x
AddUint64(x, delta) == x + delta

\* DoRequest, lines 135-137: a dead session returns an error at once.
DoRequestStart(t) ==
    /\ UNCHANGED sesOthers
    /\ dpc[t] = "idle"
    /\ IF dead
       THEN /\ dres' = Returns(t, "session is closed", None)
            /\ UNCHANGED dpc
       ELSE /\ nextID + Cardinality({u \in ReqTasks : dpc[u] = "alloc"}) < MaxReq
            /\ dpc' = [dpc EXCEPT ![t] = "alloc"]
            /\ UNCHANGED dres
    /\ UNCHANGED <<nextID, pending, dead, sstream, chBuf, chClosed, written, did,
                   rdpc, rdch, rdresp, fpc>>

\* DoRequest, lines 139-140: the reqId is the incremented counter.
AllocID(t) ==
    /\ UNCHANGED sesOthers
    /\ dpc[t] = "alloc"
    /\ nextID' = AddUint64(nextID, 1)
    /\ did' = [did EXCEPT ![t] = nextID']
    /\ dpc' = [dpc EXCEPT ![t] = "insert"]
    /\ UNCHANGED <<pending, dead, sstream, chBuf, chClosed, written, dres, rdpc, rdch, rdresp, fpc>>

\* DoRequest, lines 142-145: a fresh channel goes into the pending map.
InsertPending(t) ==
    /\ UNCHANGED sesOthers
    /\ dpc[t] = "insert"
    /\ pending' = MapPut(pending, did[t], did[t])
    /\ chBuf' = [chBuf EXCEPT ![did[t]] = None]
    /\ chClosed' = [chClosed EXCEPT ![did[t]] = FALSE]
    /\ dpc' = [dpc EXCEPT ![t] = "write"]
    /\ UNCHANGED <<nextID, dead, sstream, written, did, dres, rdpc, rdch, rdresp, fpc>>

\* DoRequest, lines 151-153: after a failed write the slot of the call is
\* taken out of the pending map (mutant: it is left there).
keepPending(m, id) == m
deletePending(m, id) == MapDel(m, id)

\* DoRequest, lines 147-155: write the Request frame under writeMu; a failed
\* write takes the slot out of the pending map and returns the error.  A write
\* succeeds on an open stream and fails on a stream closed here; on a stream
\* the remote end has closed or reset it may do either.
WriteRequest(t) ==
    /\ UNCHANGED sesOthers
    /\ dpc[t] = "write"
    /\ \/ /\ sstream \in {"open", "broken"}
          /\ written' = Append(written, did[t])
          /\ dpc' = [dpc EXCEPT ![t] = "await"]
          /\ UNCHANGED <<pending, dres, did>>
       \/ /\ sstream \in {"closed", "broken"}
          /\ pending' = deletePending(pending, did[t])
          /\ dres' = Returns(t, "write error", None)
          /\ dpc' = [dpc EXCEPT ![t] = "idle"]
          /\ did' = [did EXCEPT ![t] = None]
          /\ UNCHANGED written
    /\ UNCHANGED <<nextID, dead, sstream, chBuf, chClosed, rdpc, rdch, rdresp, fpc>>

\* DoRequest, lines 157-161: receive from the channel: the buffered Response,
\* or, from a closed and empty channel, "connection closed".  The call
\* returns and nothing refers to its channel any more.
AwaitResponse(t) ==
    /\ UNCHANGED sesOthers
    /\ dpc[t] = "await"
    /\ \/ /\ chBuf[did[t]] # None
          /\ dres' = Returns(t, "response", chBuf[did[t]])
       \/ /\ chBuf[did[t]] = None
          /\ chClosed[did[t]]
          /\ dres' = Returns(t, "connection closed", None)
    /\ chBuf' = [chBuf EXCEPT ![did[t]] = None]
    /\ chClosed' = [chClosed EXCEPT ![did[t]] = FALSE]
    /\ did' = [did EXCEPT ![t] = None]
    /\ dpc' = [dpc EXCEPT ![t] = "idle"]
    /\ UNCHANGED <<nextID, pending, dead, sstream, written, rdpc, rdch, rdresp, fpc>>

\* readLoop, line 123: ch := ps.pending[resp.RequestID], nil when there is no
\* slot (mutant: any slot of the map is taken).
LookupSlotAny(m, r) == IF DOMAIN m = {} THEN None ELSE m[CHOOSE k \in DOMAIN m : TRUE]
LookupSlot(m, r) == IF r \in DOMAIN m THEN m[r] ELSE None

\* readLoop, lines 108-125: a Response frame with RequestID r arrives; its
\* channel, if any, is taken out of the pending map under pendingMu; a
\* Response without a slot is dropped.  (Frames of another type, or that do
\* not decode, are skipped.)
ReaderRecv(r) ==
    /\ UNCHANGED sesOthers
    /\ rdpc = "read"
    /\ sstream = "open"
    /\ IF LookupSlot(pending, r) # None
       THEN /\ rdch' = LookupSlot(pending, r)
            /\ rdresp' = r
            /\ pending' = MapDel(pending, r)
            /\ rdpc' = "deliver"
       ELSE UNCHANGED <<rdch, rdresp, pending, rdpc>>
    /\ UNCHANGED <<nextID, dead, sstream, chBuf, chClosed, written, dpc, did, dres, fpc>>

\* readLoop, lines 127-130: the Response goes into the channel, which is then
\* closed.
ReaderDeliver ==
    /\ UNCHANGED sesOthers
    /\ rdpc = "deliver"
    /\ chBuf' = [chBuf EXCEPT ![rdch] = rdresp]
    /\ chClosed' = [chClosed EXCEPT ![rdch] = TRUE]
    /\ rdch' = None
    /\ rdresp' = None
    /\ rdpc' = "read"
    /\ UNCHANGED <<nextID, pending, dead, sstream, written, dpc, did, dres, fpc>>

\* The environment: the remote end closes or resets the stream.
SessionStreamBreaks ==
    /\ UNCHANGED sesOthers
    /\ sstream = "open"
    /\ sstream' = "broken"
    /\ UNCHANGED <<nextID, pending, dead, chBuf, chClosed, written, dpc, did, dres,
                   rdpc, rdch, rdresp, fpc>>

\* dead.CompareAndSwap(false, true), line 94: whether the caller is the one
\* that set the flag (mutant: every caller takes itself for the one).
CompareAndSwapAlways(old) == TRUE
CompareAndSwap(old) == old = FALSE

\* stream.Close(), line 95: the stream is closed here; a second call finds
\* it closed already.
streamClose(st) == IF st = "closed" THEN "closed twice" ELSE "closed"

\* readLoop, lines 108-112: readMsg fails; the reader calls failAll.
\* RemoveSession (pool.go, lines 95-97) calls failAll at any time.
\* failAll, lines 94-96: dead goes from false to true once, and whoever set it
\* closes the stream.
FailAllCAS(w) ==
    /\ UNCHANGED sesOthers
    /\ fpc[w] = "idle"
    /\ w = "reader" => rdpc = "read" /\ sstream # "open"
    /\ dead' = TRUE
    /\ sstream' = IF CompareAndSwap(dead) THEN streamClose(sstream) ELSE sstream
    /\ fpc' = [fpc EXCEPT ![w] = "drain"]
    /\ rdpc' = IF w = "reader" THEN "failing" ELSE rdpc
    /\ UNCHANGED <<nextID, pending, chBuf, chClosed, written, dpc, did, dres, rdch, rdresp>>

\* failAll, lines 100-103: close(ch) for every channel of the pending map
\* (mutant: the channels are left open).
closeNone(m, cl) == cl
closeAll(m, cl) == [c \in ReqIds |-> cl[c] \/ (\E k \in DOMAIN m : m[k] = c)]

\* failAll, lines 98-103: under pendingMu every channel of the pending map is
\* closed and taken out.
FailAllDrain(w) ==
    /\ UNCHANGED sesOthers
    /\ fpc[w] = "drain"
    /\ chClosed' = closeAll(pending, chClosed)
    /\ pending' = <<>>
    /\ fpc' = [fpc EXCEPT ![w] = "done"]
    /\ rdpc' = IF w = "reader" THEN "exit" ELSE rdpc
    /\ UNCHANGED <<nextID, dead, sstream, chBuf, written, dpc, did, dres, rdch, rdresp>>

sesInit ==
    /\ nextID = 0
    /\ pending = <<>>
    /\ dead = FALSE
    /\ sstream = "open"
    /\ chBuf = [c \in ReqIds |-> None]
    /\ chClosed = [c \in ReqIds |-> FALSE]
    /\ written = <<>>
    /\ dpc = [t \in ReqTasks |-> "idle"]
    /\ did = [t \in ReqTasks |-> None]
    /\ dres = NoRes
    /\ rdpc = "read"
    /\ rdch = None
    /\ rdresp = None
    /\ fpc = [w \in FailAllCallers |-> "idle"]

(***************************************************************************)
(*            PART 5: THE INBOUND STREAM, connPool.handleStream            *)
(* (src/unnamed/part_010, lines 200-321), with the Hello verification of    *)
(* src/unnamed/part_006 and the frames of src/wire-format.go.  The far end  *)
(* of the stream is a session of another node (src/peer.go), or whoever     *)
(* opened the stream.                                                       *)
(***************************************************************************)
msgChallenge == 1
msgHello == 2
msgRequest == 3
msgResponse == 4
msgGoodbye == 5

KeyIDSize == 8
ChallengeSize == 32
PublicKeySize == 32
SignatureSize == 64

InReqIds == 1..MaxInReq

\* n bytes of value b.
Rep(n, b) == [i \in 1..n |-> b]

\* The bytes of the nicknames.
NickBytes == [bob |-> <<98, 111, 98>>, carol |-> <<99, 97, 114, 111, 108>>, mallory |-> <<109>>]

\* Identities.  bob and carol are in the peer table of this node; mallory is
\* not, and has chosen her keys: her KEM key repeats her Ed25519 key, which
\* has a zero byte.
BobKeyID == Rep(KeyIDSize, 11)
BobEdPub == Rep(PublicKeySize, 12)
BobHPKEPub == Rep(PublicKeySize, 13)
CarolKeyID == Rep(KeyIDSize, 14)
CarolHPKEPub == Rep(PublicKeySize, 16)
MalKeyID == Rep(KeyIDSize, 21)
MalEdPub == [i \in 1..PublicKeySize |-> IF i = PublicKeySize - KeyIDSize THEN 0 ELSE 22]
MalHPKEPub == MalEdPub

\* The key fingerprint of this node, and another one.
LocalKeyID == Rep(KeyIDSize, 31)
OtherKeyID == Rep(KeyIDSize, 32)

\* The peer table of this node (PeerTable.Get, peer.go lines 48-54).
InPeerTable ==
    [bob |-> [KeyID |-> BobKeyID, HPKEPub |-> BobHPKEPub],
     carol |-> [KeyID |-> CarolKeyID, HPKEPub |-> CarolHPKEPub]]
TableHas(id) == \E n \in DOMAIN InPeerTable : NickBytes[n] = id
TableGet(id) == CHOOSE n \in DOMAIN InPeerTable : NickBytes[n] = id

\* The challenge rand.Read produces for the stream, and the one an earlier
\* stream got: rand.Read does not produce the same 32 bytes twice.
FreshChallenge == Rep(ChallengeSize, 1)
OldChallenge == Rep(ChallengeSize, 3)

\* helloSignInput, part_006 lines 239-249: challenge || senderID || 0 ||
\* keyID || edPub || hpkePub, the fields one after the other (mutant: the
\* challenge is left out).
helloSignInputNoChallenge(challenge, h) ==
    h.SenderID \o <<0>> \o h.SenderKeyID \o h.SenderEdPub \o h.SenderHPKEPub
helloSignInput(challenge, h) ==
    challenge \o h.SenderID \o <<0>> \o h.SenderKeyID \o h.SenderEdPub \o h.SenderHPKEPub

\* Ed25519, as an ideal signature scheme: a signature is made by the holder
\* of a key over a byte string, and verifies under that key and that byte
\* string only.  of: the challenge and the Hello fields the signer signed
\* (not seen by ed25519.Verify).
NoSig == [key |-> <<>>, msg |-> <<>>, len |-> 0, of |-> <<>>]
Fields(h) == <<h.SenderID, h.SenderKeyID, h.SenderEdPub, h.SenderHPKEPub>>
Sign(pub, challenge, h) ==
    [key |-> pub, msg |-> helloSignInput(challenge, h), len |-> SignatureSize,
     of |-> <<challenge, Fields(h)>>]
ed25519Verify(pub, msg, sig) == sig.key = pub /\ sig.msg = msg

\* verifySignedHello, part_006 lines 197-212.
verifySignedHello(challenge, h) ==
    /\ Len(h.SenderEdPub) = PublicKeySize
    /\ h.Signature.len = SignatureSize
    /\ ed25519Verify(h.SenderEdPub, helloSignInput(challenge, h), h.Signature)

\* decodeHello, wire-format.go lines 91-125: the only field whose length is
\* checked is the keyID.
decodeHelloOK(h) == Len(h.SenderKeyID) = KeyIDSize

MkHello(id, keyID, edPub, hpkePub) ==
    [SenderID |-> id, SenderKeyID |-> keyID, SenderEdPub |-> edPub,
     SenderHPKEPub |-> hpkePub, Signature |-> NoSig]
Signed(challenge, h) == [h EXCEPT !.Signature = Sign(h.SenderEdPub, challenge, h)]

BobHello == MkHello(NickBytes["bob"], BobKeyID, BobEdPub, BobHPKEPub)
MalHello == MkHello(NickBytes["mallory"], MalKeyID, MalEdPub, MalHPKEPub)
\* mallory under the nickname of bob, with her own keys.
ImpostorHello == MkHello(NickBytes["bob"], MalKeyID, MalEdPub, MalHPKEPub)

\* A signed Hello with one field replaced afterwards.
FieldAlterations(h) ==
    {[h EXCEPT !.SenderID = NickBytes["carol"]],
     [h EXCEPT !.SenderKeyID = OtherKeyID],
     [h EXCEPT !.SenderKeyID = <<>>],
     [h EXCEPT !.SenderEdPub = Rep(PublicKeySize, 40)],
     [h EXCEPT !.SenderEdPub = <<>>],
     [h EXCEPT !.SenderHPKEPub = Rep(PublicKeySize, 41)],
     [h EXCEPT !.Signature.len = SignatureSize - 1],
     [h EXCEPT !.Signature.key = Rep(PublicKeySize, 40)]}

\* A signed Hello whose bytes after the challenge are cut into fields at
\* other places: n bytes of nickname, a byte, the keyID, the edPub, the rest.
FieldBytes(h) == h.SenderID \o <<0>> \o h.SenderKeyID \o h.SenderEdPub \o h.SenderHPKEPub
Resplit(h, n) ==
    [SenderID |-> SubSeq(FieldBytes(h), 1, n),
     SenderKeyID |-> SubSeq(FieldBytes(h), n + 2, n + 1 + KeyIDSize),
     SenderEdPub |-> SubSeq(FieldBytes(h), n + 2 + KeyIDSize, n + 1 + KeyIDSize + PublicKeySize),
     SenderHPKEPub |-> SubSeq(FieldBytes(h), n + 2 + KeyIDSize + PublicKeySize, Len(FieldBytes(h))),
     Signature |-> h.Signature]
Resplits(h) ==
    {Resplit(h, n) : n \in 0..(Len(FieldBytes(h)) - 1 - KeyIDSize - PublicKeySize)} \ {h}

\* The Hello frames the far end may send on a stream with the challenge c:
\* what bob, mallory and mallory as bob sign over c, what bob once
\* signed over the challenge of another stream, and the alterations and
\* the other cuts of what bob and mallory sign over c.
HelloFrames(c) ==
    {Signed(c, BobHello), Signed(c, MalHello), Signed(c, ImpostorHello),
     Signed(OldChallenge, BobHello)}
    \cup FieldAlterations(Signed(c, BobHello))
    \cup Resplits(Signed(c, BobHello))
    \cup Resplits(Signed(c, MalHello))

\* What nodes that follow dialAndHandshake (pool.go lines 210-226) send:
\* bob, whom the peer table knows, and mallory, whom it does not.
HonestHelloFrames(c) == {Signed(c, BobHello), Signed(c, MalHello)}

NoHello == MkHello(<<>>, <<>>, <<>>, <<>>)

\* Frames of the loop: a Request (its RequestID, its RecipientKeyID, whether
\* its ciphertext opens), a Goodbye (its SenderID), or a frame of a type
\* the loop skips.
RequestFrame(id, kid, opens) ==
    [typ |-> msgRequest, id |-> id, kid |-> kid, opens |-> opens, sender |-> <<>>]
GoodbyeFrame(id) ==
    [typ |-> msgGoodbye, id |-> None, kid |-> <<>>, opens |-> FALSE, sender |-> id]
StrayFrame ==
    [typ |-> msgResponse, id |-> None, kid |-> <<>>, opens |-> FALSE, sender |-> <<>>]

\* The task of the pool the handler's NewSession runs as.
HandlerTask == 1

\* The nickname of the far end's node, once the Hello is verified.
FarNick == hello.SenderID

\* Lines 206-215: the challenge is generated and written.
InChallenge ==
    /\ UNCHANGED inOthers
    /\ hpc = "start"
    /\ inb' = [inb EXCEPT !.chal = FreshChallenge, !.hpc = "hello"]
    /\ UNCHANGED poolVars

\* setConsole, pool.go lines 55-57 (called by the main program after
\* newConnPool and newConsole, part_009 lines 97-107).
SetConsole ==
    /\ UNCHANGED inOthers
    /\ ~console
    /\ inb' = [inb EXCEPT !.console = TRUE]
    /\ UNCHANGED poolVars

\* Lines 223-226: the handler returns on a first frame that is not a Hello
\* when the pool has a console.
RejectsTag(typ) == typ # msgHello /\ console

\* Lines 218-234: the first frame is read; its tag is checked as above, its
\* payload decoded as a Hello and verified against the challenge of the
\* stream; any failure returns, and the deferred Close closes the stream.
InReadFirst(typ, h) ==
    /\ UNCHANGED inOthers
    /\ hpc = "hello"
    /\ IF ~RejectsTag(typ) /\ decodeHelloOK(h) /\ verifySignedHello(chal, h)
       THEN inb' = [inb EXCEPT !.hello = h, !.hpc = "table", !.first = typ]
       ELSE inb' = [inb EXCEPT !.hpc = "closed", !.first = typ]
    /\ UNCHANGED poolVars

\* The first frame is a Hello frame.
InReadHello(h) == InReadFirst(msgHello, h)

\* The first frame has any of the tags of the session protocol, and its
\* payload is what a node that follows dialAndHandshake signs, or nothing
\* that decodes.
FirstTags == {msgHello, msgRequest, msgGoodbye}
InReadAnyFirst ==
    /\ hpc = "hello"
    /\ \E typ \in FirstTags : \E h \in HonestHelloFrames(chal) \cup {NoHello} :
        InReadFirst(typ, h)

\* The Hello that arrives: any of the frames above, or one of a node that
\* follows dialAndHandshake.
InReadAnyHello == hpc = "hello" /\ \E h \in HelloFrames(chal) : InReadHello(h)
InReadHonestHello == hpc = "hello" /\ \E h \in HonestHelloFrames(chal) : InReadHello(h)

\* Lines 218-225: the read fails, or the frame is not a Hello.
InReadHelloFails ==
    /\ UNCHANGED inOthers
    /\ hpc = "hello"
    /\ inb' = [inb EXCEPT !.hpc = "closed"]
    /\ UNCHANGED poolVars

\* Lines 239-242, with NewSession (pool.go lines 59-64): a sender the peer
\* table knows is dialled back unless the pool has an alive session to it.
InNewSession ==
    /\ UNCHANGED inOthers
    /\ hpc = "table"
    /\ inb' = [inb EXCEPT !.hpc = "loop"]
    /\ IF TableHas(FarNick) /\ ~isAliveIn(TableGet(FarNick))
       THEN /\ pto' = [pto EXCEPT ![HandlerTask] = TableGet(FarNick)]
            /\ ppc' = [ppc EXCEPT ![HandlerTask] = "dial"]
       ELSE UNCHANGED <<pto, ppc>>
    /\ UNCHANGED <<sessions, sTo, sAlive, sReader, nSess, pnew, rm>>

\* Line 271: bytes.Equal(req.RecipientKeyID, p.keyID) (mutant: any
\* recipient is taken for this node).
keyIDEqualAny(a, b) == TRUE
keyIDEqual(a, b) == a = b

\* Line 314: the Response carries the RequestID of the Request (mutant: the
\* RequestID is left at its zero value).
ResponseToZero(req) == None
ResponseTo(req) == req.id

\* Lines 245-320: the loop reads the next frame.  A Goodbye leads to
\* RemoveSession; a frame that is not a Request is skipped; a Request for
\* another keyID, or one that does not open, returns; otherwise the Response
\* with the RequestID of the Request is written.
InLoopRead ==
    /\ UNCHANGED inOthers
    /\ hpc = "loop"
    /\ ppc[HandlerTask] = "idle"
    /\ hrd < Len(hin)
    /\ LET f == hin[hrd + 1] IN
        CASE f.typ = msgGoodbye ->
                inb' = [inb EXCEPT !.hrd = hrd + 1, !.hpc = "remove"]
          [] f.typ = msgRequest ->
                IF keyIDEqual(f.kid, LocalKeyID) /\ f.opens /\ ~idead
                THEN inb' = [inb EXCEPT !.hrd = hrd + 1,
                                        !.hout = Append(hout, ResponseTo(f))]
                ELSE inb' = [inb EXCEPT !.hrd = hrd + 1, !.hpc = "closed"]
          [] OTHER -> inb' = [inb EXCEPT !.hrd = hrd + 1]
    /\ UNCHANGED poolVars

\* Lines 246-249: the read fails once the far end has closed the stream.
InLoopReadFails ==
    /\ UNCHANGED inOthers
    /\ hpc = "loop"
    /\ ppc[HandlerTask] = "idle"
    /\ hrd = Len(hin)
    /\ idead
    /\ inb' = [inb EXCEPT !.hpc = "closed"]
    /\ UNCHANGED poolVars

\* RemoveSession, pool.go lines 89-93: the session the pool holds for a
\* nickname is taken out of the map (mutant: it stays).
poolKeep(m, nick) == m
poolDelete(m, nick) == MapDel(m, nick)

\* Line 258 with RemoveSession, pool.go lines 89-93: the session the pool
\* holds for the SenderID of the Goodbye is taken out under the pool mutex.
InGoodbyeRemove ==
    /\ UNCHANGED inOthers
    /\ hpc = "remove"
    /\ LET id == hin[hrd].sender IN
        IF TableHas(id) /\ TableGet(id) \in DOMAIN sessions
        THEN /\ inb' = [inb EXCEPT !.hrm = sessions[TableGet(id)], !.hpc = "failAll"]
             /\ sessions' = poolDelete(sessions, TableGet(id))
        ELSE /\ inb' = [inb EXCEPT !.hpc = "failAll"]
             /\ UNCHANGED sessions
    /\ UNCHANGED <<sTo, sAlive, sReader, nSess, ppc, pto, pnew, rm>>

\* failAll, peer.go lines 98-103, for the waiter of a local session.
failWaiter(res, waits, i) ==
    [res EXCEPT ![i] = IF waits[i] THEN "connection closed" ELSE @]

\* RemoveSession, pool.go lines 95-97: failAll on the session taken out;
\* the handler returns (line 259) and the deferred Close closes the stream.
InGoodbyeFailAll ==
    /\ UNCHANGED inOthers
    /\ hpc = "failAll"
    /\ IF hrm # None
       THEN /\ sAlive' = [sAlive EXCEPT ![hrm] = FALSE]
            /\ inb' = [inb EXCEPT !.mres = failWaiter(mres, mwait, hrm),
                                  !.mwait[hrm] = FALSE,
                                  !.hpc = "closed"]
       ELSE /\ inb' = [inb EXCEPT !.hpc = "closed"]
            /\ UNCHANGED sAlive
    /\ UNCHANGED <<sessions, sTo, sReader, nSess, ppc, pto, pnew, rm>>

\* DoRequest on a local session (peer.go lines 134-157): the Request is
\* written and the caller waits.
MirrorRequest(i) ==
    /\ UNCHANGED inOthers
    /\ sAlive[i]
    /\ ~mwait[i]
    /\ mres[i] = ""
    /\ inb' = [inb EXCEPT !.mwait[i] = TRUE]
    /\ UNCHANGED poolVars

\* readLoop of a local session, peer.go lines 108-112 and 93-104: the read
\* fails, failAll, the reader ends.
MirrorReaderExit(i) ==
    /\ UNCHANGED inOthers
    /\ sReader[i]
    /\ sReader' = [sReader EXCEPT ![i] = FALSE]
    /\ sAlive' = [sAlive EXCEPT ![i] = FALSE]
    /\ inb' = [inb EXCEPT !.mres = failWaiter(mres, mwait, i),
                          !.mwait[i] = FALSE]
    /\ UNCHANGED <<sessions, sTo, nSess, ppc, pto, pnew, rm>>

\* failAll, peer.go lines 93-104, at the far end: every waiter gets
\* "connection closed".
farFailAll(res, waits) ==
    [r \in InReqIds |-> IF r \in waits THEN "connection closed" ELSE res[r]]

\* The far end, DoRequest (peer.go lines 134-157): a Request with the next
\* RequestID is written on the stream of an alive session, and its caller
\* waits.  Nothing written after the handler has returned reaches it.
FarRequest(kid, opens) ==
    /\ UNCHANGED inOthers
    /\ hpc \notin {"start", "hello"}
    /\ ipc = "run"
    /\ ~idead
    /\ Len(hin) < MaxFrames
    /\ Cardinality({r \in InReqIds : ires[r] # ""} \cup iwait) < MaxInReq
    /\ LET id == Cardinality({r \in InReqIds : ires[r] # ""} \cup iwait) + 1 IN
        inb' = [inb EXCEPT
                 !.iwait = iwait \cup {id},
                 !.hin = IF hpc = "closed" THEN hin
                         ELSE Append(hin, RequestFrame(id, kid, opens))]
    /\ UNCHANGED poolVars

\* The far end writes a frame the loop skips.
FarStray ==
    /\ UNCHANGED inOthers
    /\ hpc \notin {"start", "hello", "closed"}
    /\ ipc = "run"
    /\ ~idead
    /\ Len(hin) < MaxFrames
    /\ inb' = [inb EXCEPT !.hin = Append(hin, StrayFrame)]
    /\ UNCHANGED poolVars

\* The far end, readLoop (peer.go lines 114-130): the next Response is read
\* and handed to the waiter of its RequestID.
FarReaderResponse ==
    /\ UNCHANGED inOthers
    /\ ~idead
    /\ ird < Len(hout)
    /\ IF hout[ird + 1] \in iwait
       THEN inb' = [inb EXCEPT !.ird = ird + 1,
                               !.ires[hout[ird + 1]] = "response",
                               !.iwait = iwait \ {hout[ird + 1]}]
       ELSE inb' = [inb EXCEPT !.ird = ird + 1]
    /\ UNCHANGED poolVars

\* The far end, readLoop (peer.go lines 108-112) and failAll (93-104): the
\* handler has closed the stream, the read fails once the Responses written
\* before are read, and every waiter gets "connection closed".
FarReaderEOF ==
    /\ UNCHANGED inOthers
    /\ ~idead
    /\ hpc = "closed"
    /\ ird = Len(hout)
    /\ inb' = [inb EXCEPT !.idead = TRUE,
                          !.ires = farFailAll(ires, iwait),
                          !.iwait = {}]
    /\ UNCHANGED poolVars

\* The far end, AnnounceDisconnexion (pool.go lines 269-277): the Goodbye
\* with the nickname of the far end is written on its alive session.
FarGoodbye ==
    /\ UNCHANGED inOthers
    /\ hpc \notin {"start", "hello"}
    /\ ipc = "run"
    /\ inb' = [inb EXCEPT
                 !.ipc = "bye",
                 !.hin = IF idead \/ hpc = "closed" THEN hin
                         ELSE Append(hin, GoodbyeFrame(FarNick))]
    /\ UNCHANGED poolVars

\* A far end that does not follow AnnounceDisconnexion: after its handshake
\* it writes a Goodbye whose SenderID is another nickname of the peer table.
\* encodeGoodbye (wire-format.go lines 213-220) takes any SenderID, and the
\* Goodbye is not signed.
FarGoodbyeAs(n) ==
    /\ UNCHANGED inOthers
    /\ hpc \notin {"start", "hello", "closed"}
    /\ ipc = "run"
    /\ ~idead
    /\ NickBytes[n] # FarNick
    /\ inb' = [inb EXCEPT !.ipc = "bye",
                          !.hin = Append(hin, GoodbyeFrame(NickBytes[n]))]
    /\ UNCHANGED poolVars

\* The far end, RemoveSession (pool.go lines 89-102), that is failAll on its
\* session: called by AnnounceDisconnexion after the Goodbye (pool.go line
\* 279), or without a Goodbye when its node is told that this peer has left.
FarRemoveSession ==
    /\ UNCHANGED inOthers
    /\ hpc \notin {"start", "hello"}
    /\ ipc \in {"run", "bye"}
    /\ inb' = [inb EXCEPT !.ipc = "gone",
                          !.idead = TRUE,
                          !.ires = farFailAll(ires, iwait),
                          !.iwait = {}]
    /\ UNCHANGED poolVars

inInit ==
    inb = [hpc |-> "start",
           chal |-> <<>>,
           hello |-> NoHello,
           hin |-> <<>>,
           hrd |-> 0,
           hout |-> <<>>,
           hrm |-> None,
           ipc |-> "run",
           iwait |-> {},
           ires |-> [r \in InReqIds |-> ""],
           idead |-> FALSE,
           ird |-> 0,
           mwait |-> [i \in SessionIds |-> FALSE],
           mres |-> [i \in SessionIds |-> ""],
           console |-> FALSE,
           first |-> None]

(***************************************************************************)
(*                        PART 6: THE WIRE CODECS                          *)
(* (wire-format.go for the sessions, unnamed/part_003 for the discovery).  *)
(* A byte string is a sequence of numbers.                                 *)
(***************************************************************************)
\* var hdr [4]byte: the size of a length header.
HdrSize == 4
\* A uint64 on the wire, wire-format.go line 130.
IdSize == 8

RECURSIVE Pow(_, _)
Pow(b, e) == IF e = 0 THEN 1 ELSE b * Pow(b, e - 1)

\* binary.BigEndian.PutUint32 and PutUint64: the k bytes of n, the most
\* significant first; what does not fit in k bytes is cut off.
BigEndianPut(n, k) == [i \in 1..k |-> (n \div Pow(ByteBase, k - i)) % ByteBase]
PutUint32(n) == BigEndianPut(n, HdrSize)
PutUint64(n) == BigEndianPut(n, IdSize)

\* binary.BigEndian.Uint32 and Uint64 (mutant: the least significant byte
\* first).
RECURSIVE LittleEndian(_)
LittleEndian(h) ==
    IF h = <<>> THEN 0 ELSE h[1] + ByteBase * LittleEndian(SubSeq(h, 2, Len(h)))
RECURSIVE BigEndian(_)
BigEndian(h) ==
    IF h = <<>> THEN 0 ELSE h[Len(h)] + ByteBase * BigEndian(SubSeq(h, 1, Len(h) - 1))

\* The largest length a header can declare.
MaxDeclared == Pow(ByteBase, HdrSize) - 1

\* What a reader returns on an error: no message, no blob.
ReadErr == [err |-> TRUE, typ |-> 0, b |-> <<>>, rest |-> <<>>]

\* writeMsg and readMsg, wire-format.go lines 23-54: u32(1 + len(payload)),
\* the tag, the payload.  io.ReadFull fails when the stream ends before the
\* buffer is full.  r is what is left of the stream.
writeMsg(typ, payload) == PutUint32(1 + Len(payload)) \o <<typ>> \o payload
readMsg(r) ==
    IF Len(r) < HdrSize THEN ReadErr
    ELSE LET n == BigEndian(SubSeq(r, 1, HdrSize)) IN
         IF n < 1 THEN ReadErr
         ELSE IF Len(r) < HdrSize + 1 THEN ReadErr
         ELSE IF Len(r) - (HdrSize + 1) < n - 1 THEN ReadErr
         ELSE [err |-> FALSE, typ |-> r[HdrSize + 1],
               b |-> SubSeq(r, HdrSize + 2, HdrSize + n),
               rest |-> SubSeq(r, HdrSize + n + 1, Len(r))]

\* writeBlob and readBlob, wire-format.go lines 57-79: u32(len), the bytes.
writeBlob(b) == PutUint32(Len(b)) \o b
readBlob(r) ==
    IF Len(r) < HdrSize THEN ReadErr
    ELSE LET n == BigEndian(SubSeq(r, 1, HdrSize)) IN
         IF Len(r) - HdrSize < n THEN ReadErr
         ELSE [err |-> FALSE, typ |-> 0,
               b |-> SubSeq(r, HdrSize + 1, HdrSize + n),
               rest |-> SubSeq(r, HdrSize + n + 1, Len(r))]

\* The discovery codec, part_003 lines 72-142: writeBlob, readBlob, WriteMsg
\* and ReadMsg have the text of the session codec's.
nodeWriteBlob(b) == writeBlob(b)
nodeReadBlob(r) == readBlob(r)
nodeWriteMsg(typ, payload) == writeMsg(typ, payload)
ReadMsg(r) == readMsg(r)

\* k calls of readBlob one after the other, each returning on its error: the
\* blobs read and what is left of the reader.
RECURSIVE readBlobs(_, _)
readBlobs(r, k) ==
    IF k = 0 THEN [err |-> FALSE, bs |-> <<>>, rest |-> r]
    ELSE LET x == readBlob(r) IN
         IF x.err THEN [err |-> TRUE, bs |-> <<>>, rest |-> <<>>]
         ELSE LET y == readBlobs(x.rest, k - 1) IN
              IF y.err THEN y
              ELSE [err |-> FALSE, bs |-> <<x.b>> \o y.bs, rest |-> y.rest]

\* The blobs of a sequence of byte strings, one after the other.
RECURSIVE writeBlobs(_)
writeBlobs(bs) ==
    IF bs = <<>> THEN <<>> ELSE writeBlob(bs[1]) \o writeBlobs(SubSeq(bs, 2, Len(bs)))

\* What a decoder returns: an error, or the message.
DecodeErr == [err |-> TRUE, msg |-> <<>>]
Decoded(m) == [err |-> FALSE, msg |-> m]

\* EncodeRegister and DecodeRegister, part_003 lines 145-178.
EncodeRegister(r) ==
    writeBlobs(<<r.Nickname, r.Token, r.HPKEPub>>) \o <<r.KeyID>>
DecodeRegister(data) ==
    LET x == readBlobs(data, 3) IN
    IF x.err \/ x.rest = <<>> THEN DecodeErr
    ELSE Decoded([Nickname |-> x.bs[1], Token |-> x.bs[2], HPKEPub |-> x.bs[3],
                  KeyID |-> x.rest[1]])

\* EncodeRegisterOK .. DecodeRegisterFail, part_003 lines 181-196, and
\* EncodePeerLeft, DecodePeerLeft, lines 258-264: the payload is the field.
EncodeRegisterOK(r) == r.PeerID
DecodeRegisterOK(data) == Decoded([PeerID |-> data])
EncodeRegisterFail(r) == r.Reason
DecodeRegisterFail(data) == Decoded([Reason |-> data])
EncodePeerLeft(p) == p.Nickname
DecodePeerLeft(data) == Decoded([Nickname |-> data])

\* The binary forms multiaddr.NewMultiaddrBytes accepts, of which Bytes()
\* returns one.
ValidAddrs == {<<4, 1>>, <<4, 2, 6>>}

\* EncodePeerJoined and DecodePeerJoined, part_003 lines 199-255.
EncodePeerJoined(p) ==
    writeBlobs(<<p.Nickname, p.PeerID>>) \o PutUint32(Len(p.Addrs))
        \o writeBlobs(p.Addrs) \o writeBlob(p.HPKEPub) \o <<p.KeyID>>
DecodePeerJoined(data) ==
    LET x == readBlobs(data, 2) IN
    IF x.err \/ Len(x.rest) < HdrSize THEN DecodeErr
    ELSE LET addrCount == BigEndian(SubSeq(x.rest, 1, HdrSize))
             y == readBlobs(SubSeq(x.rest, HdrSize + 1, Len(x.rest)), addrCount)
         IN  IF y.err \/ \E i \in 1..Len(y.bs) : y.bs[i] \notin ValidAddrs THEN DecodeErr
             ELSE LET z == readBlob(y.rest) IN
                  IF z.err \/ z.rest = <<>> THEN DecodeErr
                  ELSE Decoded([Nickname |-> x.bs[1], PeerID |-> x.bs[2], Addrs |-> y.bs,
                                HPKEPub |-> z.b, KeyID |-> z.rest[1]])

\* EncodePeerList and DecodePeerList, part_003 lines 267-308: the count, then
\* one blob for every peer, encoded as a PeerJoined.
EncodePeerList(p) ==
    PutUint32(Len(p.Peers))
        \o writeBlobs([i \in 1..Len(p.Peers) |-> EncodePeerJoined(p.Peers[i])])
DecodePeerList(data) ==
    IF Len(data) < HdrSize THEN DecodeErr
    ELSE LET count == BigEndian(SubSeq(data, 1, HdrSize))
             y == readBlobs(SubSeq(data, HdrSize + 1, Len(data)), count)
         IN  IF y.err \/ \E i \in 1..Len(y.bs) : DecodePeerJoined(y.bs[i]).err THEN DecodeErr
             ELSE Decoded([Peers |-> [i \in 1..Len(y.bs) |-> DecodePeerJoined(y.bs[i]).msg]])

\* encodeHello and decodeHello, wire-format.go lines 81-125.
encodeHello(h) ==
    writeBlobs(<<h.SenderID, h.SenderKeyID, h.SenderEdPub, h.SenderHPKEPub, h.Signature>>)
decodeHello(p) ==
    LET x == readBlobs(p, 5) IN
    IF x.err \/ Len(x.bs[2]) # KeyIDSize THEN DecodeErr
    ELSE Decoded([SenderID |-> x.bs[1], SenderKeyID |-> x.bs[2], SenderEdPub |-> x.bs[3],
                  SenderHPKEPub |-> x.bs[4], Signature |-> x.bs[5]])

\* encodeRequest and decodeRequest, wire-format.go lines 127-176.
encodeRequest(req) ==
    writeBlobs(<<PutUint64(req.RequestID), req.RecipientKeyID, req.EncapKey,
                 req.MediaType, req.Ciphertext>>)
decodeRequest(p) ==
    LET x == readBlobs(p, 5) IN
    IF x.err \/ Len(x.bs[1]) # IdSize \/ Len(x.bs[2]) # KeyIDSize THEN DecodeErr
    ELSE Decoded([RequestID |-> BigEndian(x.bs[1]), RecipientKeyID |-> x.bs[2],
                  EncapKey |-> x.bs[3], MediaType |-> x.bs[4], Ciphertext |-> x.bs[5]])

\* encodeResponse and decodeResponse, wire-format.go lines 178-211.
encodeResponse(resp) ==
    writeBlobs(<<PutUint64(resp.RequestID), resp.MediaType, resp.Ciphertext>>)
decodeResponse(p) ==
    LET x == readBlobs(p, 3) IN
    IF x.err \/ Len(x.bs[1]) # IdSize THEN DecodeErr
    ELSE Decoded([RequestID |-> BigEndian(x.bs[1]), MediaType |-> x.bs[2],
                  Ciphertext |-> x.bs[3]])

\* encodeGoodbye and decodeGoodbye, wire-format.go lines 218-231.
encodeGoodbye(g) == writeBlob(g.SenderID)
decodeGoodbye(p) ==
    LET x == readBlob(p) IN
    IF x.err THEN DecodeErr ELSE Decoded([SenderID |-> x.b])

\* The encoder and the decoder of a message by codec and tag.
Encode(codec, typ, m) ==
    IF codec = "node"
    THEN CASE typ = MsgRegister -> EncodeRegister(m)
           [] typ = MsgRegisterOK -> EncodeRegisterOK(m)
           [] typ = MsgRegisterFail -> EncodeRegisterFail(m)
           [] typ = MsgPeerList -> EncodePeerList(m)
           [] typ = MsgPeerJoined -> EncodePeerJoined(m)
           [] typ = MsgPeerLeft -> EncodePeerLeft(m)
    ELSE CASE typ = msgHello -> encodeHello(m)
           [] typ = msgRequest -> encodeRequest(m)
           [] typ = msgResponse -> encodeResponse(m)
           [] typ = msgGoodbye -> encodeGoodbye(m)
Decode(codec, typ, p) ==
    IF codec = "node"
    THEN CASE typ = MsgRegister -> DecodeRegister(p)
           [] typ = MsgRegisterOK -> DecodeRegisterOK(p)
           [] typ = MsgRegisterFail -> DecodeRegisterFail(p)
           [] typ = MsgPeerList -> DecodePeerList(p)
           [] typ = MsgPeerJoined -> DecodePeerJoined(p)
           [] typ = MsgPeerLeft -> DecodePeerLeft(p)
           [] OTHER -> DecodeErr
    ELSE CASE typ = msgHello -> decodeHello(p)
           [] typ = msgRequest -> decodeRequest(p)
           [] typ = msgResponse -> decodeResponse(p)
           [] typ = msgGoodbye -> decodeGoodbye(p)
           [] OTHER -> DecodeErr

\* The structurally valid messages handed to the encoders: strings and blobs
\* of a few lengths, the empty one among them; key fingerprints of KeyIDSize
\* bytes; address lists and peer lists of up to two entries, in both orders.
WireStrs == {<<>>, <<7>>, <<7, 9>>}
WireBlobs == {<<>>, <<3>>}
WireKeyIDs == {Rep(KeyIDSize, 1), Rep(KeyIDSize, 2)}
WireIds == {0, 1, Pow(ByteBase, IdSize) - 1}
AddrLists == {<<>>} \cup {<<a>> : a \in ValidAddrs} \cup {<<a, b>> : a, b \in ValidAddrs}
WirePeers ==
    [Nickname : {<<7>>, <<7, 9>>}, PeerID : {<<8>>}, Addrs : AddrLists,
     HPKEPub : {<<3>>}, KeyID : {0, 9}]
ListedPeers == {p \in WirePeers : Len(p.Addrs) = 1 /\ p.KeyID = 9}
NodeMessages ==
    {[typ |-> MsgRegister, m |-> m] :
        m \in [Nickname : WireStrs, Token : {<<5>>}, HPKEPub : WireBlobs, KeyID : {0, 9}]}
    \cup {[typ |-> MsgRegisterOK, m |-> m] : m \in [PeerID : WireStrs]}
    \cup {[typ |-> MsgRegisterFail, m |-> m] : m \in [Reason : WireStrs]}
    \cup {[typ |-> MsgPeerJoined, m |-> m] : m \in WirePeers}
    \cup {[typ |-> MsgPeerLeft, m |-> m] : m \in [Nickname : WireStrs]}
    \cup {[typ |-> MsgPeerList, m |-> [Peers |-> L]] :
            L \in {<<>>} \cup {<<p>> : p \in ListedPeers}
                    \cup {<<p, q>> : p, q \in ListedPeers}}
SessionMessages ==
    {[typ |-> msgHello, m |-> m] :
        m \in [SenderID : WireStrs, SenderKeyID : WireKeyIDs, SenderEdPub : WireBlobs,
               SenderHPKEPub : WireBlobs, Signature : WireBlobs]}
    \cup {[typ |-> msgRequest, m |-> m] :
        m \in [RequestID : WireIds, RecipientKeyID : WireKeyIDs, EncapKey : WireBlobs,
               MediaType : WireBlobs, Ciphertext : WireBlobs]}
    \cup {[typ |-> msgResponse, m |-> m] :
        m \in [RequestID : WireIds, MediaType : WireBlobs, Ciphertext : WireBlobs]}
    \cup {[typ |-> msgGoodbye, m |-> m] : m \in [SenderID : WireStrs]}
MessagesOf(codec) == IF codec = "node" THEN NodeMessages ELSE SessionMessages

\* The streams handed to the readers: a header that is cut short, and headers
\* declaring a length of 0, 1, 2 or the largest there is, followed by one
\* byte less than declared, by as many, or by one more.
DeclaredLens == {0, 1, 2, MaxDeclared}
WireStreams ==
    {Rep(k, 0) : k \in 0..(HdrSize - 1)}
    \cup {PutUint32(n) \o Rep(k, 1) : n \in DeclaredLens, k \in 0..1}
    \cup UNION {{PutUint32(n) \o Rep(n + d - 1, 1) : d \in 0..2} : n \in DeclaredLens \ {0}}

NoWireMsg == [typ |-> 0, m |-> <<>>]

\* A message is encoded and written as a frame: WriteMsg(w, tag, Encode(m)).
WireEncode ==
    /\ UNCHANGED wfOthers
    /\ wop = "idle"
    /\ \E codec \in {"node", "session"} : \E x \in MessagesOf(codec) :
        wf' = [wf EXCEPT !.wop = "encoded", !.wcodec = codec, !.wmsg = x,
                         !.wire = writeMsg(x.typ, Encode(codec, x.typ, x.m))]

\* The frame is read and its payload decoded by the decoder of its tag.
WireDecode ==
    /\ UNCHANGED wfOthers
    /\ wop = "encoded"
    /\ LET f == readMsg(wire) IN
        wf' = [wf EXCEPT !.wop = "decoded",
                         !.wgot = IF f.err THEN [typ |-> 0, dec |-> DecodeErr]
                                  ELSE [typ |-> f.typ, dec |-> Decode(wcodec, f.typ, f.b)]]

\* The four readers by name.
Readers == {"readMsg", "readBlob", "ReadMsg", "nodeReadBlob"}
Read(reader, r) ==
    CASE reader = "readMsg" -> readMsg(r)
      [] reader = "readBlob" -> readBlob(r)
      [] reader = "ReadMsg" -> ReadMsg(r)
      [] reader = "nodeReadBlob" -> nodeReadBlob(r)

\* One of the readers is called on a stream.
WireRead ==
    /\ UNCHANGED wfOthers
    /\ wop = "idle"
    /\ \E reader \in Readers : \E st \in WireStreams :
        wf' = [wf EXCEPT !.wop = "read", !.wcodec = reader, !.wire = st,
                         !.wgot = Read(reader, st)]

wfInit ==
    wf = [wop |-> "idle", wcodec |-> "", wmsg |-> NoWireMsg, wire |-> <<>>,
          wgot |-> [typ |-> 0, dec |-> DecodeErr]]

(***************************************************************************)
(*                     PART 7: identity.DeriveKeys                         *)
(* (unnamed/part_001, lines 60-107).  The primitives are ideal: a key is   *)
(* the record of what it was made from, a hash a fixed mixing of bytes.    *)
(***************************************************************************)
SeedSize == 32

\* The seeds handed to DeriveKeys: 32 bytes of one value or with one byte
\* apart, and seeds of a wrong length.
SeedBytes == {0, 1, 2, 3, 163, 255}
Seeds ==
    {Rep(SeedSize, v) : v \in SeedBytes}
    \cup {<<v>> \o Rep(SeedSize - 1, 0) : v \in SeedBytes \ {0}}
    \cup {Rep(SeedSize - 1, 1), Rep(SeedSize + 1, 1), <<>>}

\* The bytes crypto/rand.Reader may return.
RandBytes == {Rep(SeedSize, v) : v \in {10, 11, 12}}

\* ed25519.NewKeyFromSeed and PrivateKey.Public: the key pair of the seed
\* (mutant: ed25519.GenerateKey, the key pair of fresh random bytes).
ed25519GenerateKey(seed) == [alg |-> "ed25519", seed |-> krand]
ed25519NewKeyFromSeed(seed) == [alg |-> "ed25519", seed |-> seed]
ed25519Public(priv) == [alg |-> "ed25519", pubOf |-> priv.seed]

\* Scheme.DeriveKeyPair of KEM_X25519_HKDF_SHA256: the key pair of the seed.
kemDeriveKeyPair(seed) ==
    [priv |-> [alg |-> "x25519", seed |-> seed], pub |-> [alg |-> "x25519", pubOf |-> seed]]

\* PublicKey.MarshalBinary: the 32 bytes of an X25519 public key.
kemMarshalBinary(pub) == [i \in 1..PublicKeySize |-> (3 * pub.pubOf[i] + i) % 256]

RECURSIVE SumBytes(_)
SumBytes(b) == IF b = <<>> THEN 0 ELSE b[1] + SumBytes(SubSeq(b, 2, Len(b)))

\* sha256.Sum256: 32 bytes, every one depending on every byte of the input.
sha256Sum256(b) == [i \in 1..32 |-> (SumBytes(b) + 7 * i) % 256]

\* Lines 79-83: the first byte of the hash, 1 in the place of 0 (mutant: the
\* first byte as it is).
keyIDOfHashRaw(hash) == hash[1]
keyIDOfHash(hash) == IF hash[1] = 0 THEN 1 ELSE hash[1]

\* libp2pcrypto.KeyPairFromStdKey and peer.IDFromPublicKey: the transport
\* identity of the Ed25519 key, and the identifier of its public key.
KeyPairFromStdKey(priv) ==
    [priv |-> [alg |-> "libp2p-ed25519", seed |-> priv.seed],
     pub |-> [alg |-> "libp2p-ed25519", pubOf |-> priv.seed]]
IDFromPublicKey(pub) == [id |-> pub.pubOf]

NoKeys == [err |-> TRUE]

\* DeriveKeys, lines 60-107.
DeriveKeys(seed) ==
    IF Len(seed) # SeedSize THEN NoKeys
    ELSE LET ed25519Priv == ed25519NewKeyFromSeed(seed)
             hpke == kemDeriveKeyPair(seed)
             hpkePubBytes == kemMarshalBinary(hpke.pub)
             libp2p == KeyPairFromStdKey(ed25519Priv)
         IN  [err |-> FALSE,
              Ed25519Priv |-> ed25519Priv,
              Ed25519Pub |-> ed25519Public(ed25519Priv),
              HPKEPub |-> hpke.pub,
              HPKEPriv |-> hpke.priv,
              HPKEPubBytes |-> hpkePubBytes,
              KeyID |-> keyIDOfHash(sha256Sum256(hpkePubBytes)),
              Libp2pPriv |-> libp2p.priv,
              Libp2pPub |-> libp2p.pub,
              PeerID |-> IDFromPublicKey(libp2p.pub)]

\* The first call of DeriveKeys, on any seed.
DeriveFirst ==
    /\ UNCHANGED dkOthers
    /\ kpc = "idle"
    /\ \E seed \in Seeds :
        dk' = [dk EXCEPT !.kpc = "one", !.kseed = seed, !.krand1 = krand,
                         !.kone = DeriveKeys(seed)]

\* Between the calls the random source moves on.
RandAdvances ==
    /\ UNCHANGED dkOthers
    /\ kpc \in {"idle", "one"}
    /\ \E r \in RandBytes \ {krand} : dk' = [dk EXCEPT !.krand = r]

\* The second call, on the same seed.
DeriveSecond ==
    /\ UNCHANGED dkOthers
    /\ kpc = "one"
    /\ dk' = [dk EXCEPT !.kpc = "two", !.ktwo = DeriveKeys(kseed)]

dkInit ==
    dk = [kpc |-> "idle", kseed |-> <<>>, krand |-> Rep(SeedSize, 10),
          krand1 |-> Rep(SeedSize, 10), kone |-> NoKeys, ktwo |-> NoKeys]

(***************************************************************************)
(*        PART 8: THE DISCOVERY SERVER WITH ITS CLIENTS (one node)         *)
(* Every stream of the server of Part 1 has a Client at its far end, which *)
(* reads the frames the server wrote, in order (server.go, lines 326-376   *)
(* and 443-476).                                                           *)
(***************************************************************************)
\* The one discovery node, as the clients name it.
TheNode == 1

\* The PeerInfo a client makes of a nickname it is told.
ToldPeer(nick, peer) == [Nickname |-> nick, Addrs |-> "addr1", Key |-> peer]

\* Connect, lines 373-376: addPeer for every peer of the PeerList.
RECURSIVE SeedAll(_, _)
SeedAll(tab, nicks) ==
    IF nicks = {} THEN tab
    ELSE LET n == CHOOSE x \in nicks : TRUE
         IN  SeedAll(addPeerEntry(tab, ToldPeer(n, None), TheNode), nicks \ {n})

\* The client of stream s reads the next frame the server wrote to it.
\* Connect (lines 326-376) takes RegisterOK and PeerList, and returns an
\* error on anything else; readLoop (lines 456-474) takes PeerJoined and
\* PeerLeft and skips anything else.
ClientRecv(s) ==
    /\ UNCHANGED roOthers
    /\ ~broken[s]
    /\ rpc[s] # "failed"
    /\ rrd[s] < Len(out[s])
    /\ LET f == out[s][rrd[s] + 1] IN
        CASE rpc[s] = "register" ->
                ro' = [ro EXCEPT !.rrd[s] = @ + 1,
                                 !.rpc[s] = IF f.typ = MsgRegisterOK THEN "list" ELSE "failed"]
          [] rpc[s] = "list" ->
                IF f.typ = MsgPeerList
                THEN ro' = [ro EXCEPT !.rrd[s] = @ + 1, !.rpc[s] = "loop",
                                      !.rtab[s] = SeedAll(@, f.list)]
                ELSE ro' = [ro EXCEPT !.rrd[s] = @ + 1, !.rpc[s] = "failed"]
          [] rpc[s] = "loop" ->
                CASE f.typ = MsgPeerJoined ->
                        ro' = [ro EXCEPT !.rrd[s] = @ + 1,
                                         !.rtab[s] = addPeerEntry(@, ToldPeer(f.nick, f.peer), TheNode)]
                  [] f.typ = MsgPeerLeft ->
                        ro' = [ro EXCEPT !.rrd[s] = @ + 1,
                                         !.rtab[s] = removeEntry(@, f.nick, TheNode)]
                  [] OTHER -> ro' = [ro EXCEPT !.rrd[s] = @ + 1]

roInit ==
    ro = [rpc |-> [s \in ServerStreams |-> "register"],
          rrd |-> [s \in ServerStreams |-> 0],
          rtab |-> [s \in ServerStreams |-> <<>>]]

(***************************************************************************)
(*          PART 9: THE WRITES ON ONE PUSH-STREAM, CALL BY CALL            *)
(* The handler of the stream (server.go, lines 96-134) and the broadcasts  *)
(* of other handlers (lines 178-208), with WriteMsg (part_003, lines       *)
(* 108-121) as its three calls of Write.                                   *)
(***************************************************************************)
\* The tasks: the handler of the push-stream, and the handlers of other
\* streams that run a broadcast.
StreamHandler == 0
Broadcasters == 1..NumBroadcasters
FrameWriters == {StreamHandler} \cup Broadcasters

\* WriteMsg, part_003 lines 108-121: three calls of Write, for the length,
\* the tag and the payload.
WriteCalls(t, typ) ==
    <<[by |-> t, typ |-> typ, part |-> "len"],
      [by |-> t, typ |-> typ, part |-> "tag"],
      [by |-> t, typ |-> typ, part |-> "payload"]>>

\* handleStream, lines 96-122: under the write lock, which waits for the
\* broadcasts that hold the read lock, the stream is put into the streams
\* map; RegisterOK and PeerList are then due, with no lock held (124-134).
FwRegister ==
    /\ UNCHANGED fwOthers
    /\ fwpc[StreamHandler] = "idle"
    /\ frl = {}
    /\ fw' = [fw EXCEPT !.fmap = TRUE,
                        !.fwpc[StreamHandler] = "write",
                        !.fq[StreamHandler] = WriteCalls(StreamHandler, MsgRegisterOK)
                                               \o WriteCalls(StreamHandler, MsgPeerList)]

\* broadcastJoined, lines 188-195, and broadcastLeft, lines 202-207: the read
\* lock is taken, and a frame is due for the push-stream if the streams map
\* holds it.
FwBroadcastStart(b) ==
    /\ UNCHANGED fwOthers
    /\ fwpc[b] = "idle"
    /\ \E typ \in {MsgPeerJoined, MsgPeerLeft} :
        fw' = [fw EXCEPT !.frl = @ \cup {b},
                         !.fwpc[b] = "write",
                         !.fq[b] = IF fmap THEN WriteCalls(b, typ) ELSE <<>>]

\* One call of Write by task t: its bytes reach the stream after those of
\* every call made before.
FwWrite(t) ==
    /\ UNCHANGED fwOthers
    /\ fwpc[t] = "write"
    /\ fq[t] # <<>>
    /\ fw' = [fw EXCEPT !.fwire = Append(@, Head(fq[t])),
                        !.fq[t] = Tail(@)]

\* The broadcast is over: the deferred RUnlock.  The handler has written
\* PeerList: it goes on to broadcastJoined, which leaves its own stream out.
FwReturn(t) ==
    /\ UNCHANGED fwOthers
    /\ fwpc[t] = "write"
    /\ fq[t] = <<>>
    /\ fw' = [fw EXCEPT !.frl = @ \ {t}, !.fwpc[t] = "done"]

fwInit ==
    fw = [frl |-> {}, fmap |-> FALSE,
          fwpc |-> [t \in FrameWriters |-> "idle"],
          fq |-> [t \in FrameWriters |-> <<>>],
          fwire |-> <<>>]

(***************************************************************************)
(*        PART 10: peerHandler BEHIND THE DISCOVERY CLIENT                 *)
(* Client.addPeer and Client.removePeerFromNode (server.go, lines 389-429)  *)
(* call the handler while they hold Client.mu, so each event is one step:   *)
(* the tracked table is updated, then OnPeerJoined or OnPeerLeft            *)
(* (unnamed/part_009, lines 152-172) updates the peer table (peer.go,       *)
(* lines 39-51) and the pool (pool.go, lines 89-102).                       *)
(***************************************************************************)
\* PeerTable.Add, peer.go lines 39-44: the entry of the nickname is set.
PeerTableAddInfo(tab, info) ==
    MapPut(tab, info.Nickname, [Addrs |-> info.Addrs, Key |-> info.Key])

\* PeerTable.Remove, peer.go lines 46-51.
PeerTableRemoveNick(tab, nick) == MapDel(tab, nick)

\* readLoop, case MsgPeerJoined (server.go lines 456-468): node N announces
\* a peer; addPeer (389-408) tracks it and calls OnPeerJoined (part_009
\* lines 152-166), which adds it to the peer table.
PhPeerJoined(N) ==
    /\ UNCHANGED phOthers
    /\ \E info \in PeerInfos :
        /\ info.Nickname \notin reported[N]
        /\ ph' = [ph EXCEPT
                    !.reported[N] = @ \cup {info.Nickname},
                    !.tracked = addPeerEntry(@, info, N),
                    !.peerTable = PeerTableAddInfo(@, info)]

\* readLoop, case MsgPeerLeft (server.go lines 470-475): node N withdraws a
\* peer; removePeerFromNode (410-429) returns if the nickname is not
\* tracked, else drops N from SeenBy, deletes the entry when SeenBy is
\* empty, and calls OnPeerLeft (part_009 lines 168-172), which removes the
\* nickname from the peer table and its session from the pool.
PhPeerLeft(N) ==
    /\ UNCHANGED phOthers
    /\ \E nick \in reported[N] :
        IF nick \notin DOMAIN tracked
        THEN ph' = [ph EXCEPT !.reported[N] = @ \ {nick}]
        ELSE ph' = [ph EXCEPT
                      !.reported[N] = @ \ {nick},
                      !.tracked = removeEntry(@, nick, N),
                      !.peerTable = PeerTableRemoveNick(@, nick),
                      !.outbound = @ \ {nick}]

\* The console sends to a nickname (console.go line 423, pool.go lines
\* 59-76): the peer is looked up in the peer table and a session to it is
\* stored in the pool.
PhNewSession ==
    /\ UNCHANGED phOthers
    /\ \E nick \in DOMAIN peerTable :
        /\ nick \notin outbound
        /\ ph' = [ph EXCEPT !.outbound = @ \cup {nick}]

phInit ==
    ph = [reported |-> [N \in Nodes |-> {}],
          tracked |-> <<>>,
          peerTable |-> <<>>,
          outbound |-> {}]

(***************************************************************************)
(*          PART 11: ONE RUN OF Server.broadcastJoined                     *)
(* (internal/node/server.go, lines 178-196) over a streams map of up to     *)
(* NumPushStreams nicknames, some of whose streams fail.                    *)
(***************************************************************************)
PushNicks == 1..NumPushStreams

\* Line 192: the stream of the new peer is skipped.
JoinedSkips(nickname, p) == nickname = p

\* Line 193: the error of WriteMsg is dropped and the loop goes on with the
\* entries that are left (mutant: the loop ends at the first error).
StopOnWriteError(rest, ok) == IF ok THEN rest ELSE {}
AfterWriteMsg(rest, ok) == rest

\* handleStream, line 137, and broadcastJoined, lines 179-189: the handler
\* of the new peer, which it has put into the maps, encodes PeerJoined and
\* takes the read lock; the range loop starts over the map as it stands.
BjStart ==
    /\ UNCHANGED bjOthers
    /\ jpc = "idle"
    /\ \E p \in PushNicks : \E M \in SUBSET PushNicks : \E B \in SUBSET M :
        /\ p \in M
        /\ bj' = [bj EXCEPT !.jpc = "loop", !.jp = p, !.jmap = M,
                            !.jbroken = B, !.jtodo = M]

\* Lines 191-195: one iteration of the range loop, over the entries in the
\* map's arbitrary order.
BjIterate ==
    /\ UNCHANGED bjOthers
    /\ jpc = "loop"
    /\ \E nickname \in jtodo :
        IF JoinedSkips(nickname, jp)
        THEN bj' = [bj EXCEPT !.jtodo = @ \ {nickname}]
        ELSE LET ok == nickname \notin jbroken IN
             bj' = [bj EXCEPT
                      !.jtodo = AfterWriteMsg(@ \ {nickname}, ok),
                      !.jlog = Append(@, [to |-> nickname, ok |-> ok])]

\* The push-stream of a nickname fails while the loop runs.
BjStreamBreaks ==
    /\ UNCHANGED bjOthers
    /\ jpc = "loop"
    /\ \E nickname \in jmap \ jbroken :
        bj' = [bj EXCEPT !.jbroken = @ \cup {nickname}]

\* Lines 189 and 196: the loop is over, the deferred RUnlock runs.
BjReturn ==
    /\ UNCHANGED bjOthers
    /\ jpc = "loop"
    /\ jtodo = {}
    /\ bj' = [bj EXCEPT !.jpc = "done"]

bjInit ==
    bj = [jpc |-> "idle", jp |-> None, jmap |-> {}, jbroken |-> {},
          jtodo |-> {}, jlog |-> <<>>]

(***************************************************************************)
(*      PART 12: THE WRITES ON ONE OUTBOUND SESSION, CALL BY CALL          *)
(* DoRequest (peer.go, lines 147-149) and AnnounceDisconnexion (pool.go,    *)
(* lines 272-280) on the stream of one session, with writeMsg              *)
(* (wire-format.go, lines 22-35) as its three calls of Write.               *)
(***************************************************************************)
\* The tasks: the callers of DoRequest, and AnnounceDisconnexion.
Announcer == NumReqTasks + 1
SessionWriters == {Announcer} \cup ReqTasks

\* writeMu.Lock() returns when nobody holds the mutex (mutant: at once).
LockAtOnce(holder) == TRUE
MutexFree(holder) == holder = None

\* The frame a task writes: AnnounceDisconnexion a Goodbye, DoRequest a
\* Request.
FrameOf(t) == IF t = Announcer THEN msgGoodbye ELSE msgRequest

\* DoRequest, line 147, and AnnounceDisconnexion, lines 273-275: the task
\* comes to writeMu.Lock().
SwCall(t) ==
    /\ UNCHANGED swOthers
    /\ swpc[t] = "idle"
    /\ sw' = [sw EXCEPT !.swpc[t] = "lock"]

\* writeMu.Lock() returns; writeMsg is entered.
SwLock(t) ==
    /\ UNCHANGED swOthers
    /\ swpc[t] = "lock"
    /\ MutexFree(writeMu)
    /\ sw' = [sw EXCEPT !.writeMu = t,
                        !.swpc[t] = "write",
                        !.swq[t] = WriteCalls(t, FrameOf(t))]

\* One call of Write in writeMsg, lines 26-34: its bytes reach the stream
\* after those of every call made before; on a stream that has failed the
\* call returns an error and writeMsg returns it without the calls left.
SwWrite(t) ==
    /\ UNCHANGED swOthers
    /\ swpc[t] = "write"
    /\ IF swq[t] = <<>> \/ swbroken
       THEN sw' = [sw EXCEPT !.swq[t] = <<>>, !.swpc[t] = "unlock"]
       ELSE sw' = [sw EXCEPT !.swire = Append(@, Head(swq[t])),
                             !.swq[t] = Tail(@)]

\* writeMu.Unlock(), peer.go line 149 and pool.go line 277.  After it
\* AnnounceDisconnexion calls RemoveSession (line 279), whose failAll closes
\* the stream.
SwUnlock(t) ==
    /\ UNCHANGED swOthers
    /\ swpc[t] = "unlock"
    /\ sw' = [sw EXCEPT !.writeMu = IF @ = t THEN None ELSE @,
                        !.swpc[t] = "done",
                        !.swbroken = @ \/ t = Announcer]

\* The remote end closes or resets the stream.
SwStreamBreaks ==
    /\ UNCHANGED swOthers
    /\ ~swbroken
    /\ sw' = [sw EXCEPT !.swbroken = TRUE]

swInit ==
    sw = [writeMu |-> None,
          swpc |-> [t \in SessionWriters |-> "idle"],
          swq |-> [t \in SessionWriters |-> <<>>],
          swbroken |-> FALSE,
          swire |-> <<>>]

(***************************************************************************)
(*      PART 13: THE CONNECTIONS OF THE DISCOVERY CLIENT, CALL BY CALL     *)
(*                                                                         *)
(* Client.Connect with every frame it reads and every return it has,       *)
(* Client.readLoop with its deferred function, and Client.Close.  A node   *)
(* accepts one registration per nickname (handleStream, lines 96-102), so  *)
(* Connect to a node is called again only after the connection to it, if   *)
(* there was one, has ended.                                               *)
(***************************************************************************)
\* The task that calls Close.
Closer == NumNodes + 1

\* The reasons a node gives in a RegisterFail (sendFail, lines 75-100).
FailReasons == {"invalid token", "nickname already in use"}

NoFrame == [typ |-> None, reason |-> "", list |-> {}, ok |-> TRUE]
ReadError == [typ |-> None, reason |-> "", list |-> {}, ok |-> FALSE]
\* What ReadMsg can return for the frame after the Register: an error, a
\* RegisterFail, the RegisterOK, or a frame of another type.
FirstFrames ==
    {ReadError}
    \cup {[typ |-> MsgRegisterFail, reason |-> r, list |-> {}, ok |-> TRUE] : r \in FailReasons}
    \cup {[typ |-> t, reason |-> "", list |-> {}, ok |-> TRUE] : t \in {MsgRegisterOK, MsgPeerList}}
\* The peer lists a node sends here: every peer under its first address.
ConnLists == {L \in PeerLists : \A p \in L : p.Addrs = "addr1"}
\* What ReadMsg can return for the frame after the RegisterOK: an error, a
\* PeerList whose payload decodes or does not, or a frame of another type.
SecondFrames ==
    {ReadError}
    \cup {[typ |-> MsgPeerList, reason |-> "", list |-> L, ok |-> TRUE] : L \in ConnLists}
    \cup {[typ |-> MsgPeerList, reason |-> "", list |-> {}, ok |-> FALSE]}
    \cup {[typ |-> MsgPeerJoined, reason |-> "", list |-> {}, ok |-> TRUE]}

NoError == [msg |-> "nil", reason |-> ""]
Errorf(msg, reason) == [msg |-> msg, reason |-> reason]
NoCalls == [joined |-> 0, conn |-> 0, disc |-> 0]

\* stream.Close() on the error returns of Connect, lines 322-355 (mutant:
\* the stream is left as it is).
leaveStream(st) == st
closeStream(st) == "closed"

\* An error return of Connect: the stream, if one was opened, is closed.
CnFail(N, f, e) ==
    cn' = [cn EXCEPT !.ypc[N] = "failed",
                     !.yframe[N] = f,
                     !.yerr[N] = e,
                     !.ystream[N] = IF @ = "none" THEN @ ELSE closeStream(@)]

\* Connect, lines 290-312: the address is parsed, the node dialled and a
\* stream opened; a failure here returns before there is a stream.
CnDial(N) ==
    /\ UNCHANGED cnOthers
    /\ ypc[N] \in {"idle", "failed"}
    /\ yn < MaxConnEvents
    /\ \/ \E m \in {"connect to node", "open stream"} :
            cn' = [cn EXCEPT !.ypc[N] = "failed", !.yerr[N] = Errorf(m, ""),
                             !.ystream[N] = "none", !.yframe[N] = NoFrame,
                             !.ycancel[N] = FALSE, !.yn = @ + 1]
       \/ cn' = [cn EXCEPT !.ypc[N] = "stream", !.yerr[N] = NoError,
                           !.ystream[N] = "open", !.yframe[N] = NoFrame,
                           !.ycancel[N] = FALSE, !.yn = @ + 1]

\* Connect, lines 314-324: the Register is written.
CnSendRegister(N) ==
    /\ UNCHANGED cnOthers
    /\ ypc[N] = "stream"
    /\ \/ CnFail(N, NoFrame, Errorf("send register", ""))
       \/ cn' = [cn EXCEPT !.ypc[N] = "sent"]

\* Connect, lines 326-342: the answer to the Register is read.
CnReadResponse(N) ==
    /\ UNCHANGED cnOthers
    /\ ypc[N] = "sent"
    /\ \E f \in FirstFrames :
        IF ~f.ok THEN CnFail(N, f, Errorf("read response", ""))
        ELSE IF f.typ = MsgRegisterFail
             THEN CnFail(N, f, Errorf("registration failed", f.reason))
        ELSE IF f.typ # MsgRegisterOK
             THEN CnFail(N, f, Errorf("unexpected message type", ""))
        ELSE cn' = [cn EXCEPT !.ypc[N] = "ok", !.yframe[N] = f]

\* Connect, lines 344-371: the PeerList is read and decoded; then the
\* connection is stored under the lock.  With an empty list the loop of
\* lines 374-376 is skipped.
CnReadPeerList(N) ==
    /\ UNCHANGED cnOthers
    /\ ypc[N] = "ok"
    /\ \E f \in SecondFrames :
        IF f.typ = None THEN CnFail(N, yframe[N], Errorf("read peer list", ""))
        ELSE IF f.typ # MsgPeerList THEN CnFail(N, yframe[N], Errorf("expected PeerList", ""))
        ELSE IF ~f.ok THEN CnFail(N, yframe[N], Errorf("decode peer list", ""))
        ELSE /\ ymu = None
             /\ cn' = [cn EXCEPT !.ypc[N] = IF f.list = {} THEN "cbConn" ELSE "seed",
                                 !.yframe[N] = NoFrame,
                                 !.ylist[N] = f.list,
                                 !.ynodes = @ \cup {N}]

\* addPeer, lines 389-404, called for info by the task of node N: lock,
\* update the table; the lock stays held while the callback is invoked.
CnAddPeer(N, info, back) ==
    /\ ymu = None
    /\ cn' = [cn EXCEPT !.ymu = N,
                        !.ypeers = addPeerEntry(@, info, N),
                        !.ylist[N] = @ \ {info},
                        !.yret[N] = back,
                        !.ypc[N] = "cbJoined",
                        !.yn = IF back = "loop" THEN @ + 1 ELSE @]

\* Connect, lines 373-376: addPeer for the next entry of the PeerList.
CnSeed(N) ==
    /\ UNCHANGED cnOthers
    /\ ypc[N] = "seed"
    /\ \E p \in ylist[N] :
        CnAddPeer(N, p, IF ylist[N] = {p} THEN "cbConn" ELSE "seed")

\* addPeer, lines 405-407: OnPeerJoined runs, addPeer returns and its
\* deferred Unlock releases the lock.
CnAddPeerReturn(N) ==
    /\ UNCHANGED cnOthers
    /\ ypc[N] = "cbJoined"
    /\ cn' = [cn EXCEPT !.ymu = IF @ = N THEN None ELSE @,
                        !.ycbs[N].joined = @ + 1,
                        !.ypc[N] = yret[N],
                        !.yret[N] = "idle"]

\* Connect, lines 378-381: OnNodeConnected runs.
CnNotify(N) ==
    /\ UNCHANGED cnOthers
    /\ ypc[N] = "cbConn"
    /\ cn' = [cn EXCEPT !.ycbs[N].conn = @ + 1, !.ypc[N] = "start"]

\* Connect, lines 383-386: the read loop is started and Connect returns nil.
CnStartLoop(N) ==
    /\ UNCHANGED cnOthers
    /\ ypc[N] = "start"
    /\ cn' = [cn EXCEPT !.yloops[N] = @ + 1, !.ypc[N] = "loop"]

\* readLoop, lines 443-467: the context is not done and ReadMsg returns a
\* PeerJoined; addPeer.
CnLoopRecv(N) ==
    /\ UNCHANGED cnOthers
    /\ ypc[N] = "loop"
    /\ ystream[N] = "open"
    /\ yn < MaxConnEvents
    /\ \E p \in PeerInfos : CnAddPeer(N, p, "loop")

\* The node, or the network, ends the stream.
CnStreamEnds(N) ==
    /\ UNCHANGED cnOthers
    /\ ystream[N] = "open"
    /\ ypc[N] = "loop"
    /\ cn' = [cn EXCEPT !.ystream[N] = "reset"]

\* Whether the loop of readLoop returns, lines 444-453: the context is done,
\* or ReadMsg fails on a stream that was closed or reset (mutant: the loop
\* goes on whatever happened to the connection).
LoopNeverEnds(cancelled, st) == FALSE
LoopEnds(cancelled, st) == cancelled \/ st # "open"

\* readLoop returns and its deferred function closes the stream (line 433).
CnLoopReturn(N) ==
    /\ UNCHANGED cnOthers
    /\ ypc[N] = "loop"
    /\ LoopEnds(ycancel[N], ystream[N])
    /\ cn' = [cn EXCEPT !.ystream[N] = "closed", !.ypc[N] = "defer"]

\* The deferred function of readLoop, lines 434-436: the entry of the node
\* is deleted under the lock.
CnDeferDelete(N) ==
    /\ UNCHANGED cnOthers
    /\ ypc[N] = "defer"
    /\ ymu = None
    /\ cn' = [cn EXCEPT !.ynodes = @ \ {N}, !.ypc[N] = "cbDisc"]

\* The deferred function of readLoop, lines 438-440: OnNodeDisconnected
\* runs; the task ends.
CnDisconnected(N) ==
    /\ UNCHANGED cnOthers
    /\ ypc[N] = "cbDisc"
    /\ cn' = [cn EXCEPT !.ycbs[N].disc = @ + 1, !.ypc[N] = "idle"]

\* Close, lines 504-505: the lock is taken; the range loop will visit the
\* entries the map has now.
CloseLock ==
    /\ UNCHANGED cnOthers
    /\ yclose = "idle"
    /\ ymu = None
    /\ cn' = [cn EXCEPT !.ymu = Closer, !.yclose = "locked", !.ytodo = ynodes]

\* Close, lines 507-510: one iteration: the context of the connection is
\* cancelled and its stream closed.
CloseNode(N) ==
    /\ UNCHANGED cnOthers
    /\ yclose = "locked"
    /\ N \in ytodo
    /\ cn' = [cn EXCEPT !.ycancel[N] = TRUE,
                        !.ystream[N] = "closed",
                        !.ytodo = @ \ {N},
                        !.yclosed = @ \cup {N}]

\* Close returns: its deferred Unlock releases the lock.
CloseReturn ==
    /\ UNCHANGED cnOthers
    /\ yclose = "locked"
    /\ ytodo = {}
    /\ cn' = [cn EXCEPT !.ymu = IF @ = Closer THEN None ELSE @, !.yclose = "done"]

cnInit ==
    cn = [ypc |-> [N \in Nodes |-> "idle"],
          yret |-> [N \in Nodes |-> "idle"],
          ystream |-> [N \in Nodes |-> "none"],
          ycancel |-> [N \in Nodes |-> FALSE],
          yframe |-> [N \in Nodes |-> NoFrame],
          yerr |-> [N \in Nodes |-> NoError],
          ylist |-> [N \in Nodes |-> {}],
          ynodes |-> {},
          ypeers |-> <<>>,
          ymu |-> None,
          yloops |-> [N \in Nodes |-> 0],
          ycbs |-> [N \in Nodes |-> NoCalls],
          yclose |-> "idle",
          ytodo |-> {},
          yclosed |-> {},
          yn |-> 0]

(***************************************************************************)
(*                           THE SPECIFICATIONS                            *)
(***************************************************************************)
vars == <<srvVars, cliVars, poolVars, sesVars, caVars, bcVars, adVars, inVars, wfVars, dkVars, roVars, fwVars, phVars, bjVars, swVars, cnVars>>

Init ==
    /\ srvInit /\ cliInit /\ poolInit /\ sesInit
    /\ caInit /\ bcInit /\ adInit /\ inInit
    /\ wfInit
    /\ dkInit
    /\ roInit
    /\ fwInit
    /\ phInit
    /\ bjInit
    /\ swInit
    /\ cnInit

NextServer ==
    \E s \in ServerStreams :
        \/ HandleRegister(s)
        \/ RegisterLocked(s)
        \/ SendRegisterOK(s)
        \/ SendPeerList(s)
        \/ RemoveAfterWriteFail(s)
        \/ BroadcastJoined(s)
        \/ ReadFailsRemove(s)
        \/ BroadcastLeft(s)
        \/ StreamBreaks(s)

NextClient ==
    \E N \in Nodes :
        \/ Connect(N)
        \/ SeedPeer(N)
        \/ OnNodeConnected(N)
        \/ RecvPeerJoined(N)
        \/ OnPeerJoined(N)
        \/ AddPeerReturn(N)
        \/ RecvPeerLeft(N)
        \/ OnPeerLeft(N)
        \/ RemovePeerReturn(N)
        \/ ReadLoopExit(N)
        \/ OnNodeDisconnected(N)

NextPool ==
    \/ \E t \in PoolTasks :
        \/ NewSessionGet(t)
        \/ DialFails(t)
        \/ DialAndHandshake(t)
        \/ StoreSession(t)
    \/ \E nick \in PoolNicks : RemoveSessionDelete(nick)
    \/ \E i \in SessionIds :
        \/ RemoveSessionFailAll(i)
        \/ PoolReaderExit(i)

NextSession ==
    \/ \E t \in ReqTasks :
        \/ DoRequestStart(t)
        \/ AllocID(t)
        \/ InsertPending(t)
        \/ WriteRequest(t)
        \/ AwaitResponse(t)
    \/ \E r \in ReqIds : ReaderRecv(r)
    \/ ReaderDeliver
    \/ SessionStreamBreaks
    \/ \E w \in FailAllCallers :
        \/ FailAllCAS(w)
        \/ FailAllDrain(w)

SpecServer == Init /\ [][NextServer]_vars

\* The Go scheduler runs every handler that can take a step, and a writer
\* waiting for Server.mu gets it once the readers ahead of it are done: no
\* broadcast, and no handler whose read has failed, waits forever.
FairServer ==
    \A s \in ServerStreams :
        /\ WF_vars(BroadcastJoined(s))
        /\ WF_vars(ReadFailsRemove(s))
        /\ WF_vars(BroadcastLeft(s))

SpecServerLive == Init /\ [][NextServer]_vars /\ FairServer

SpecClient == Init /\ [][NextClient]_vars

\* ConnectAll with the part of Connect that follows the stored connection.
NextConnectAll ==
    \/ ConnectAllStart
    \/ ConnectAllReturn
    \/ \E N \in Nodes :
        \/ CAConnectFails(N)
        \/ CAConnectStores(N)
        \/ CAConnectReturns(N)
        \/ CARecord(N)
        \/ SeedPeer(N)
        \/ OnPeerJoined(N)
        \/ AddPeerReturn(N)
        \/ OnNodeConnected(N)

SpecConnectAll == Init /\ [][NextConnectAll]_vars

SpecPool == Init /\ [][NextPool]_vars

\* AnnounceDisconnexion on the pool, with whatever else uses the pool.
NextDisconnexion ==
    \/ AnnounceSnapshot
    \/ \E nick \in PoolNicks : AnnounceIsAlive(nick)
    \/ AnnounceWriteGoodbye
    \/ AnnounceRemove
    \/ AnnounceFailAll
    \/ \E t \in PoolTasks :
        \/ NewSessionGet(t)
        \/ DialFails(t)
        \/ DialAndHandshake(t)
        \/ StoreSession(t)
    \/ \E nick \in PoolNicks : RemoveSessionDelete(nick)
    \/ \E i \in SessionIds :
        \/ RemoveSessionFailAll(i)
        \/ PoolReaderExit(i)

SpecDisconnexion == Init /\ [][NextDisconnexion]_vars

\* The handshake of the inbound stream: whatever Hello arrives, then the
\* dial back, while other tasks use the pool.
NextHello ==
    \/ InChallenge
    \/ InReadAnyHello
    \/ InReadHelloFails
    \/ InNewSession
    \/ \E t \in PoolTasks :
        \/ DialFails(t)
        \/ DialAndHandshake(t)
        \/ StoreSession(t)
    \/ \E t \in PoolTasks \ {HandlerTask} : NewSessionGet(t)
    \/ \E i \in SessionIds : PoolReaderExit(i)

SpecHello == Init /\ [][NextHello]_vars

\* The inbound stream of a node that follows dialAndHandshake: the
\* handshake, the dial back, the loop, the far end and the local session.
NextInbound ==
    \/ InChallenge
    \/ InReadHonestHello
    \/ InReadHelloFails
    \/ InNewSession
    \/ DialFails(HandlerTask)
    \/ DialAndHandshake(HandlerTask)
    \/ StoreSession(HandlerTask)
    \/ InLoopRead
    \/ InLoopReadFails
    \/ InGoodbyeRemove
    \/ InGoodbyeFailAll
    \/ \E i \in SessionIds :
        \/ MirrorRequest(i)
        \/ MirrorReaderExit(i)
    \/ \E kid \in {LocalKeyID, OtherKeyID} : \E opens \in BOOLEAN : FarRequest(kid, opens)
    \/ FarStray
    \/ FarReaderResponse
    \/ FarReaderEOF
    \/ FarGoodbye
    \/ FarRemoveSession

SpecInbound == Init /\ [][NextInbound]_vars

\* The inbound stream on which the far end sends no Request, a user of this
\* node who opens sessions of his own (NewSession from the console), and a
\* far end that may name another nickname in its Goodbye.
NextGoodbyeAs ==
    \/ InChallenge
    \/ InReadHonestHello
    \/ InNewSession
    \/ \E t \in PoolTasks :
        \/ t # HandlerTask /\ NewSessionGet(t)
        \/ DialFails(t)
        \/ DialAndHandshake(t)
        \/ StoreSession(t)
    \/ InLoopRead
    \/ InLoopReadFails
    \/ InGoodbyeRemove
    \/ InGoodbyeFailAll
    \/ \E i \in SessionIds :
        \/ MirrorRequest(i)
        \/ MirrorReaderExit(i)
    \/ FarReaderEOF
    \/ FarGoodbye
    \/ \E n \in DOMAIN InPeerTable : FarGoodbyeAs(n)
    \/ FarRemoveSession

SpecGoodbyeAs == Init /\ [][NextGoodbyeAs]_vars

NextJoined == BjStart \/ BjIterate \/ BjStreamBreaks \/ BjReturn

SpecJoined == Init /\ [][NextJoined]_vars

\* The inbound stream whose first frame may have any tag, on a pool that
\* gets its console at some time.
NextFirstFrame ==
    \/ SetConsole
    \/ InChallenge
    \/ InReadAnyFirst
    \/ InReadHelloFails
    \/ InNewSession
    \/ DialFails(HandlerTask)
    \/ DialAndHandshake(HandlerTask)
    \/ StoreSession(HandlerTask)
    \/ InLoopRead
    \/ InLoopReadFails
    \/ InGoodbyeRemove
    \/ InGoodbyeFailAll
    \/ FarRequest(LocalKeyID, TRUE)
    \/ FarReaderResponse
    \/ FarReaderEOF
    \/ FarGoodbye
    \/ FarRemoveSession

SpecFirstFrame == Init /\ [][NextFirstFrame]_vars

NextSessionWrites ==
    \/ \E t \in SessionWriters :
        \/ SwCall(t)
        \/ SwLock(t)
        \/ SwWrite(t)
        \/ SwUnlock(t)
    \/ SwStreamBreaks

SpecSessionWrites == Init /\ [][NextSessionWrites]_vars

NextConnections ==
    \/ CloseLock
    \/ CloseReturn
    \/ \E N \in Nodes :
        \/ CnDial(N)
        \/ CnSendRegister(N)
        \/ CnReadResponse(N)
        \/ CnReadPeerList(N)
        \/ CnSeed(N)
        \/ CnAddPeerReturn(N)
        \/ CnNotify(N)
        \/ CnStartLoop(N)
        \/ CnLoopRecv(N)
        \/ CnStreamEnds(N)
        \/ CnLoopReturn(N)
        \/ CnDeferDelete(N)
        \/ CnDisconnected(N)
        \/ CloseNode(N)

SpecConnections == Init /\ [][NextConnections]_vars

\* The Go scheduler runs every task that can take a step, and a task waiting
\* for Client.mu gets it once it is free: Close, once it has the lock, goes
\* through the map and returns; a Connect past its last read, a callback
\* and a read loop whose context is done or whose ReadMsg has failed go on.
\* Nothing makes a node send a frame, the stream end or Close be called.
FairConnections ==
    /\ WF_vars(CloseReturn)
    /\ \A N \in Nodes :
        /\ WF_vars(CloseNode(N))
        /\ SF_vars(CnSeed(N))
        /\ WF_vars(CnAddPeerReturn(N))
        /\ WF_vars(CnNotify(N))
        /\ WF_vars(CnStartLoop(N))
        /\ WF_vars(CnLoopReturn(N))
        /\ SF_vars(CnDeferDelete(N))
        /\ WF_vars(CnDisconnected(N))

SpecConnectionsLive == Init /\ [][NextConnections]_vars /\ FairConnections

NextHandler ==
    \/ \E N \in Nodes :
        \/ PhPeerJoined(N)
        \/ PhPeerLeft(N)
    \/ PhNewSession

SpecHandler == Init /\ [][NextHandler]_vars

\* The inbound stream with its scheduling: the handler takes its next step,
\* the dial back ends, and the reader of the far end reads what the stream
\* holds and notices that it is closed.  What the far end sends, and when,
\* is left open.
FairInbound ==
    /\ WF_vars(InNewSession)
    /\ WF_vars(InLoopRead)
    /\ WF_vars(InLoopReadFails)
    /\ WF_vars(InGoodbyeRemove)
    /\ WF_vars(InGoodbyeFailAll)
    /\ WF_vars(DialFails(HandlerTask) \/ DialAndHandshake(HandlerTask))
    /\ WF_vars(StoreSession(HandlerTask))
    /\ WF_vars(FarReaderResponse)
    /\ WF_vars(FarReaderEOF)
    /\ WF_vars(FarRemoveSession /\ ipc = "bye")

SpecInboundLive == Init /\ [][NextInbound]_vars /\ FairInbound

NextBroadcast ==
    \/ BroadcastStart
    \/ BroadcastReturn
    \/ \E n \in TableNicks :
        \/ PeerTableAdd(n)
        \/ PeerTableRemove(n)
        \/ BroadcastSend(n)
        \/ BroadcastRecord(n)

SpecBroadcast == Init /\ [][NextBroadcast]_vars

SpecSession == Init /\ [][NextSession]_vars

NextDerive == DeriveFirst \/ RandAdvances \/ DeriveSecond

SpecDerive == Init /\ [][NextDerive]_vars

\* The server and the clients of its streams.
NextRoster == NextServer \/ \E s \in ServerStreams : ClientRecv(s)

SpecRoster == Init /\ [][NextRoster]_vars

NextFrames ==
    \/ FwRegister
    \/ \E b \in Broadcasters : FwBroadcastStart(b)
    \/ \E t \in FrameWriters : FwWrite(t) \/ FwReturn(t)

SpecFrames == Init /\ [][NextFrames]_vars

NextWire == WireEncode \/ WireDecode \/ WireRead

SpecWire == Init /\ [][NextWire]_vars

\* The session with its scheduling: a call that can take its next step takes
\* it, the reader delivers what it took, notices a stream that no longer reads
\* and finishes failAll; RemoveSession finishes the failAll it began.  When
\* the remote end answers or closes, when RemoveSession is called and when a
\* new call starts is left open.
FairSession ==
    /\ \A t \in ReqTasks :
        /\ WF_vars(AllocID(t))
        /\ WF_vars(InsertPending(t))
        /\ WF_vars(WriteRequest(t))
        /\ WF_vars(AwaitResponse(t))
    /\ WF_vars(ReaderDeliver)
    /\ WF_vars(FailAllCAS("reader"))
    /\ \A w \in FailAllCallers : WF_vars(FailAllDrain(w))

SpecSessionLive == Init /\ [][NextSession]_vars /\ FairSession

(***************************************************************************)
(*                               THE CLAIMS                                *)
(***************************************************************************)

\* The handler of s has inserted its peer into the maps (registration
\* succeeded), now or earlier.
Inserted(s) == spc[s] \notin {"read", "lock"} /\ reg[s] # NoReg /\ fail[s] = ""

\* The handler of s has its peer in the maps now.
InsertedPCs == {"sendOK", "sendList", "bjoin", "bjoinW", "wait", "rmfail"}
Holders(n) == {s \in ServerStreams : spc[s] \in InsertedPCs /\ reg[s].Nickname = n}

\* C1: on every stream on which registration succeeds, the first frame the
\* server writes is RegisterOk and the second is PeerList, so that no
\* PeerJoined or PeerLeft frame precedes the PeerList on that stream.
C1_RegisterOkPeerListFirst ==
    \A s \in ServerStreams :
        Inserted(s) =>
            /\ Len(out[s]) >= 1 => out[s][1].typ = MsgRegisterOK
            /\ Len(out[s]) >= 2 => out[s][2].typ = MsgPeerList

\* C2, as a state predicate: at most one handler holds a nickname; the
\* online map has a nickname exactly when a handler holds it, and then both
\* maps describe that handler's stream.
C2_OneHolder ==
    \A n \in RegNicks :
        /\ Cardinality(Holders(n)) <= 1
        /\ n \in DOMAIN online <=> Holders(n) # {}
        /\ n \in DOMAIN online <=> n \in DOMAIN streams
        /\ n \in DOMAIN online =>
              /\ streams[n] \in Holders(n)
              /\ online[n] = [Nickname |-> n, PeerID |-> RemotePeer(streams[n])]

\* C2, as a step: a Register for a nickname that is online is answered with
\* RegisterFail("nickname already in use") and changes neither map; one for
\* a nickname that is not online is inserted.
C2_Step ==
    \A s \in ServerStreams :
        (spc[s] = "lock" /\ spc'[s] # "lock") =>
            IF reg[s].Nickname \in DOMAIN online
            THEN /\ fail'[s] = "nickname already in use"
                 /\ out' = WriteMsg(out, s, Frame(MsgRegisterFail, "", None, {},
                                                 "nickname already in use"))
                 /\ online' = online
                 /\ streams' = streams
                 /\ spc'[s] = "done"
            ELSE /\ spc'[s] = "sendOK"
                 /\ fail'[s] = ""
                 /\ streams' = MapPut(streams, reg[s].Nickname, s)

\* C2: each online nickname maps to exactly one OnlinePeer; of several
\* Registers with the same nickname and the correct token at most one is
\* inserted while the nickname is online, and every other one is answered with
\* RegisterFail("nickname already in use") and leaves both maps unchanged.
C2_SingleRegistration == []C2_OneHolder /\ [][C2_Step]_vars

\* C2 witness: alice is online through one stream and the Register for alice
\* on another stream has been refused.
C2_Witness ==
    \E s, t \in ServerStreams :
        /\ s # t
        /\ "alice" \in DOMAIN online /\ streams["alice"] = s
        /\ reg[t].Nickname = "alice" /\ fail[t] = "nickname already in use"
        /\ Len(out[t]) = 1 /\ out[t][1].typ = MsgRegisterFail

\* A failed validation on stream s with the given reason: RegisterFail is
\* written to s alone, the stream is closed, the maps are unchanged.
C3_Rejected(s, reason) ==
    /\ fail'[s] = reason
    /\ out' = WriteMsg(out, s, Frame(MsgRegisterFail, "", None, {}, reason))
    /\ closed'[s]
    /\ spc'[s] = "done"
    /\ online' = online
    /\ streams' = streams

C3_Step ==
    \A s \in ServerStreams :
        (spc[s] = "read" /\ spc'[s] # "read" /\ reg'[s] # NoReg) =>
            /\ reg'[s].Nickname \notin DOMAIN ConfigPeers
                  => C3_Rejected(s, "unknown nickname")
            /\ (/\ reg'[s].Nickname \in DOMAIN ConfigPeers
                /\ reg'[s].Token # ConfigPeers[reg'[s].Nickname])
                  => C3_Rejected(s, "invalid token")

\* A refused stream stays closed and out of the maps, and nothing but the
\* RegisterFail was ever written to it.
C3_StaysOut ==
    \A s \in ServerStreams :
        fail[s] \in {"unknown nickname", "invalid token"} =>
            /\ closed[s] /\ spc[s] = "done"
            /\ \A n \in DOMAIN streams : streams[n] # s
            /\ \A i \in 1..Len(out[s]) : out[s][i].typ = MsgRegisterFail

\* C3: a Register with an unknown nickname is answered with
\* RegisterFail("unknown nickname"), one with a wrong token with
\* RegisterFail("invalid token"); the stream is then closed, the online and
\* streams maps are unchanged and no PeerJoined is written to anyone.
C3_Unauthorized == []C3_StaysOut /\ [][C3_Step]_vars

\* C3 witness: one stream refused for its nickname, another for its token.
C3_Witness ==
    \E s, t \in ServerStreams :
        /\ fail[s] = "unknown nickname" /\ closed[s] /\ Len(out[s]) = 1
        /\ fail[t] = "invalid token" /\ closed[t] /\ Len(out[t]) = 1

\* C4: once the connection to node N has ended, N is in the SeenBy set of no
\* tracked peer (and so a peer that only N reported is no longer returned by
\* GetPeer / GetAllPeers).
C4_DisconnectDropsNode ==
    \A N \in Nodes :
        (N \notin nodes /\ cpc[N] \in {"cbDisc", "idle"}) =>
            \A n \in DOMAIN peers : N \notin peers[n].SeenBy

\* Every entry but that of nickname n is the same before and after the step.
OthersUnchanged(n) ==
    /\ (DOMAIN peers') \ {n} = (DOMAIN peers) \ {n}
    /\ \A m \in (DOMAIN peers) \ {n} : peers'[m] = peers[m]

C5_Step ==
    \A N \in Nodes :
        /\ (cpc[N] = "loop" /\ cpc'[N] \in {"cbLeft", "retLeft"}) =>
              LET n == cur'[N].Nickname IN
              /\ cur'[N].cbs = 0
              /\ OthersUnchanged(n)
              /\ IF n \notin DOMAIN peers
                 THEN peers' = peers /\ cpc'[N] = "retLeft"
                 ELSE /\ cpc'[N] = "cbLeft"
                      /\ IF peers[n].SeenBy \ {N} = {}
                         THEN n \notin DOMAIN peers'
                         ELSE /\ n \in DOMAIN peers'
                              /\ peers'[n] = [peers[n] EXCEPT !.SeenBy = @ \ {N}]
                              /\ (N \notin peers[n].SeenBy => peers'[n] = peers[n])
        /\ (cpc[N] = "cbLeft" /\ cpc'[N] # "cbLeft") =>
              /\ cpc'[N] = "retLeft"
              /\ cur'[N] = [cur[N] EXCEPT !.cbs = 1]
              /\ peers' = peers
        /\ (cpc[N] = "retLeft" /\ cpc'[N] # "retLeft") =>
              /\ cpc'[N] = "loop"
              /\ peers' = peers

\* C5: on PeerLeft(n) from node N, an untracked n changes nothing and fires
\* no callback; for a tracked n, N leaves n's SeenBy, the entry is dropped
\* exactly when SeenBy becomes empty, and onPeerLeft is emitted once; a
\* PeerLeft from a node that never reported n leaves n's entry unchanged.
C5_PeerLeftMerge == [][C5_Step]_vars

\* C5 witness: two nodes reported bob, one has sent PeerLeft(bob): bob is
\* still tracked, seen by the other node alone, and onPeerLeft has fired.
C5_Witness ==
    \E N, M \in Nodes :
        /\ N # M
        /\ cpc[N] = "retLeft" /\ cur[N].Nickname = "bob" /\ cur[N].cbs = 1
        /\ "bob" \in DOMAIN peers /\ peers["bob"].SeenBy = {M}

C6_Step ==
    \A N \in Nodes :
        /\ (cpc[N] \in {"seed", "loop"} /\ cpc'[N] = "cbJoined") =>
              LET n == cur'[N].Nickname IN
              /\ cur'[N].cbs = 0
              /\ OthersUnchanged(n)
              /\ n \in DOMAIN peers'
              /\ peers'[n].Addrs = cur'[N].Addrs
              /\ IF n \notin DOMAIN peers
                 THEN peers'[n].SeenBy = {N}
                 ELSE peers'[n].SeenBy = peers[n].SeenBy \cup {N}
        /\ (cpc[N] = "cbJoined" /\ cpc'[N] # "cbJoined") =>
              /\ cpc'[N] = "retJoined"
              /\ cur'[N] = [cur[N] EXCEPT !.cbs = 1]
              /\ peers' = peers
        /\ (cpc[N] = "retJoined" /\ cpc'[N] # "retJoined") =>
              /\ cpc'[N] \in {"seed", "cbConn", "loop"}
              /\ peers' = peers

\* C6: on PeerJoined (or a PeerList entry) for n from node N, an untracked n
\* gets an entry with SeenBy = {N}; a tracked n gets N added to SeenBy and its
\* addresses replaced by the report's; onPeerJoined is emitted exactly once
\* and no other entry changes.
C6_PeerJoinedMerge == [][C6_Step]_vars

\* C6 witness: bob, reported by every node, the last report carrying another
\* address than the first.
C6_Witness ==
    \E N \in Nodes :
        /\ cpc[N] = "retJoined" /\ cur[N].Nickname = "bob" /\ cur[N].cbs = 1
        /\ cur[N].Addrs = "addr2"
        /\ "bob" \in DOMAIN peers /\ peers["bob"].SeenBy = Nodes
        /\ peers["bob"].Addrs = "addr2"

\* C7: every entry of the tracked-peer table has a non-empty SeenBy set.
C7_SeenByNonEmpty == \A n \in DOMAIN peers : peers[n].SeenBy # {}

\* C7 witness: a PeerLeft has just dropped an entry while another entry is
\* still tracked, and a node has disconnected.
C7_Witness ==
    \E N \in Nodes :
        /\ cpc[N] = "retLeft" /\ cur[N].cbs = 1
        /\ cur[N].Nickname \notin DOMAIN peers
        /\ peers # <<>>
        /\ \E M \in Nodes : M \notin nodes

\* C8: a task that is invoking a handler callback holds no lock of the client.
C8_CallbacksHoldNoLock == \A N \in Nodes : cpc[N] \in CallbackPCs => cmu # N

\* C9: at any time there is at most one alive outbound session (an open
\* stream with a running reader task) per remote nickname.
C9_OneAliveSessionPerNick ==
    \A n \in PoolNicks :
        Cardinality({i \in SessionIds : sTo[i] = n /\ sAlive[i] /\ sReader[i]}) <= 1

\* The tasks that hold a reqId: allocated, and the call has not yet returned.
HoldsId(t) == dpc[t] \in {"insert", "write", "await"}

C10_Distinct ==
    /\ \A t, u \in ReqTasks : (t # u /\ HoldsId(t) /\ HoldsId(u)) => did[t] # did[u]
    /\ \A t \in ReqTasks : HoldsId(t) => (1 <= did[t] /\ did[t] <= nextID)
    /\ \A i, j \in 1..Len(written) : i # j => written[i] # written[j]
    /\ \A i \in 1..Len(written) : 1 <= written[i] /\ written[i] <= nextID

C10_AllocStep ==
    \A t \in ReqTasks :
        (dpc[t] = "alloc" /\ dpc'[t] = "insert") =>
            /\ did'[t] = nextID + 1
            /\ nextID' = nextID + 1

\* C10: the reqIds allocated by DoRequest on one session are pairwise
\* distinct under concurrent callers: each call takes counter+1 atomically, so
\* ids start at 1 and strictly increase, and no two Request frames written on
\* the session carry the same reqId.
C10_UniqueReqIds == []C10_Distinct /\ [][C10_AllocStep]_vars

\* C10 witness: two concurrent calls await their responses; the call that
\* took the later id wrote its frame first.
C10_Witness ==
    \E t, u \in ReqTasks :
        /\ t # u /\ dpc[t] = "await" /\ dpc[u] = "await"
        /\ did[t] = 1 /\ did[u] = 2
        /\ written = <<2, 1>>


\* C11: responses are correlated by reqId alone.  A DoRequest call that
\* returns a Response returns the one whose RequestID is the reqId it
\* allocated; a channel only ever receives the Response with the reqId it was
\* stored under, whatever the order of arrival; the reader leaves "read" for a
\* Response only when that reqId has a slot, and then takes out exactly that
\* slot and touches no channel; every slot of the pending map belongs to a
\* call in progress, so that the map is empty once every call has returned.
C11_Step ==
    /\ \A t \in ReqTasks :
        (dpc[t] = "await" /\ dpc'[t] = "idle" /\ dres'.kind = "response")
            => dres' = Returns(t, "response", did[t])
    /\ \A c \in ReqIds :
        (chBuf[c] = None /\ chBuf'[c] # None) => chBuf'[c] = c
    /\ (rdpc = "read" /\ rdpc' = "deliver")
        => /\ rdresp' \in DOMAIN pending
           /\ pending' = MapDel(pending, rdresp')
           /\ rdch' = pending[rdresp']
           /\ UNCHANGED <<chBuf, chClosed, dpc, did, dres>>

C11_NoStraySlot ==
    DOMAIN pending \subseteq {did[t] : t \in {u \in ReqTasks : dpc[u] \in {"write", "await"}}}

C11_CorrelatedByReqId == []C11_NoStraySlot /\ [][C11_Step]_vars

\* Requests 1 and 2 were written in this order; the call of reqId 2 already
\* returned its Response while the call of reqId 1 still waits on its slot.
C11_Witness ==
    /\ Len(written) >= 2 /\ written[1] = 1 /\ written[2] = 2
    /\ \E t, u \in ReqTasks :
        /\ dpc[t] = "await" /\ did[t] = 1 /\ 1 \in DOMAIN pending
        /\ dres = Returns(u, "response", 2)


\* C12: when the session dies no DoRequest call blocks forever: every call in
\* progress returns.  A call waiting on its channel returns the Response if
\* the reader had put one there, and "connection closed" if the channel was
\* closed empty; a call that has not written yet (such as one that inserted
\* its slot after failAll had drained the map) returns the error of its write,
\* which fails because failAll closed the stream before draining.
C12_Step ==
    \A t \in ReqTasks :
        /\ (dpc[t] = "await" /\ dpc'[t] = "idle")
            => /\ chClosed[did[t]]
               /\ dres'.task = t
               /\ dres'.kind = IF chBuf[did[t]] # None THEN "response"
                               ELSE "connection closed"
        /\ (dpc[t] = "write" /\ dpc'[t] = "idle")
            => /\ sstream # "open"
               /\ dres' = Returns(t, "write error", None)
               /\ did[t] \notin DOMAIN pending'
        /\ (dpc[t] = "write" /\ fpc'["reader"] = "done"
              /\ (\A w \in FailAllCallers \ {"reader"} : fpc'[w] \in {"idle", "done"})
              /\ did[t] \in DOMAIN pending')
            => sstream' = "closed"

C12_DeathUnblocksAll ==
    /\ dead ~> (\A t \in ReqTasks : dpc[t] = "idle")
    /\ [][C12_Step]_vars

\* A failAll has drained the pending map, and a call that had passed the dead
\* check before has inserted its slot since and is about to write.
C12_Witness ==
    /\ dead
    /\ \E w \in FailAllCallers : fpc[w] = "done"
    /\ \A w \in FailAllCallers : fpc[w] # "drain"
    /\ \E t \in ReqTasks : dpc[t] = "write" /\ did[t] \in DOMAIN pending

\* C12 as stated: every call in progress when the session dies returns an
\* error.
C12_AllReturnAnError ==
    [][\A t \in ReqTasks :
          (dead /\ dpc[t] # "idle" /\ dpc'[t] = "idle")
              => dres'.kind \in {"connection closed", "write error"}]_vars


\* C20: the streams map and the online map of the discovery server have the
\* same nicknames as keys in every state in which no handler is inside a
\* critical section of the write lock (the critical sections are single
\* steps here), whatever registrations, rejected registrations, failed writes
\* and disconnects have happened.
C20_SameDomains == DOMAIN streams = DOMAIN online

\* bob is online while alice, who had registered, has been removed again
\* after her stream's read failed.
C20_Witness ==
    /\ "bob" \in DOMAIN online /\ "bob" \in DOMAIN streams
    /\ "alice" \notin DOMAIN online
    /\ \E s \in ServerStreams :
        reg[s].Nickname = "alice" /\ fail[s] = "" /\ spc[s] \in {"bleft", "bleftW", "done"}


\* C17: ConnectAll returns only after the Connect of every address has
\* finished and been recorded; it returns nil exactly when at least one
\* Connect succeeded, and otherwise an error that wraps the failure recorded
\* first; every address is attempted whatever happens to the others.
C17_Returned ==
    camain = "done" =>
        /\ \A N \in caAddrs : capc[N] = "done" /\ cpc[N] \in {"idle", "loop"}
        /\ caRet.nil <=> (\E N \in caAddrs : caErr[N] = "")
        /\ ~caRet.nil =>
            /\ caRet.wraps = firstErr
            /\ firstErr.node \in caAddrs
            /\ firstErr.err = caErr[firstErr.node]
            /\ firstErr.err # ""

C17_Step ==
    /\ \A N \in Nodes :
        (capc[N] = "record" /\ capc'[N] = "done" /\ caErr[N] # "")
            => firstErr' = IF firstErr = NoErr THEN NodeErr(N, caErr[N]) ELSE firstErr
    /\ \A N \in Nodes : (capc[N] = "done" /\ caErr[N] = "") => N \in nodes
    /\ (camain = "wait" /\ camain' = "done") => \A N \in caAddrs : capc[N] = "done"

C17_ConnectAll == []C17_Returned /\ [][C17_Step]_vars

\* ConnectAll returned nil although the Connect of one address failed.
C17_Witness ==
    /\ camain = "done" /\ caRet.nil
    /\ \E N, M \in caAddrs : caErr[N] # "" /\ caErr[M] = ""


\* C18: Broadcast sends exactly once, with the [BROADCAST] prefix, to every
\* peer of the peer-table snapshot other than self and to nobody else; it
\* returns only after all these sends have returned; it returns nil exactly
\* when all of them succeeded and otherwise the first error returned; a
\* failed send neither cancels nor skips another.
C18_Returned ==
    bmain = "done" =>
        /\ \A n \in TableNicks :
            /\ bpc[n] \in {"none", "done"}
            /\ bsent[n] = IF n \in bsnap /\ n # SelfNick
                          THEN << <<"[BROADCAST]">> \o bmsg >> ELSE <<>>
        /\ (bret = NoSendErr) <=> (\A n \in TableNicks : bres[n] = "")
        /\ bret # NoSendErr => bret = gerr /\ bres[bret.node] = bret.err /\ bret.err # ""

C18_Step ==
    /\ \A n \in TableNicks :
        (bpc[n] = "record" /\ bpc'[n] = "done" /\ bres[n] # "")
            => gerr' = IF gerr = NoSendErr THEN SendErr(n, bres[n]) ELSE gerr
    /\ (bmain = "wait" /\ bmain' = "done")
        => \A n \in TableNicks : (n \in bsnap /\ n # SelfNick) => bpc[n] = "done"

C18_Broadcast == []C18_Returned /\ [][C18_Step]_vars

\* Broadcast returned the error of the send to one peer; the send to the
\* other peer was made all the same and succeeded; self was in the snapshot.
C18_Witness ==
    /\ bmain = "done" /\ bret # NoSendErr /\ SelfNick \in bsnap
    /\ \E n, m \in TableNicks : bres[n] # "" /\ bres[m] = "" /\ Len(bsent[m]) = 1


\* C19: once AnnounceDisconnexion has returned, every session of its snapshot
\* is out of the pool and dead, or at least in the hands of another
\* RemoveSession that is about to fail it, and has had at most one Goodbye
\* frame written on it.
C19_SnapshotTornDown ==
    adpc = "done" =>
        \A nick \in DOMAIN adsnap :
            /\ ~(nick \in DOMAIN sessions /\ sessions[nick] = adsnap[nick])
            /\ ~sAlive[adsnap[nick]] \/ adsnap[nick] \in rm
            /\ goodbyes[adsnap[nick]] <= 1


\* C13: when the peer table has an entry for the SenderID of the Hello, the
\* handler is in its loop only if the keyID and the HPKE key of the Hello
\* are those of the entry.
C13_TableChecked ==
    hpc = "loop" /\ TableHas(hello.SenderID) =>
        /\ hello.SenderKeyID = InPeerTable[TableGet(hello.SenderID)].KeyID
        /\ hello.SenderHPKEPub = InPeerTable[TableGet(hello.SenderID)].HPKEPub

\* The lengths of the fields of a Hello.
FieldLens(fields) == [k \in 1..4 |-> Len(fields[k])]

\* C14: a Hello the handler has accepted carries a signature that verifies
\* under its edPub over challenge || senderID || 0 || keyID || edPub ||
\* hpkePub with the challenge of this stream; the signer made it over this
\* challenge, not over that of another stream, and over the same bytes; and
\* if no field has changed its length since, over the same fields.
C14_HelloAuthentic ==
    hpc \in {"table", "loop"} =>
        /\ ed25519Verify(hello.SenderEdPub, helloSignInput(chal, hello), hello.Signature)
        /\ hello.Signature.of[1] = chal
        /\ hello.Signature.msg = chal \o FieldBytes(hello)
        /\ FieldLens(hello.Signature.of[2]) = FieldLens(Fields(hello))
            => hello.Signature.of[2] = Fields(hello)

\* The Hello bob signed over the challenge of this stream is accepted.
C14_Witness == hpc = "table" /\ hello = Signed(chal, BobHello)

\* C14 as stated: the signature of an accepted Hello was made over this
\* challenge and over these very fields, so that a Hello with any field
\* altered after signing is rejected.
C14_SignedAsSent ==
    hpc \in {"table", "loop"} =>
        /\ ed25519Verify(hello.SenderEdPub, helloSignInput(chal, hello), hello.Signature)
        /\ hello.Signature.of = <<chal, Fields(hello)>>


\* The Request frames the far end has written for another keyID than that
\* of this node.
WrongRecipient == {k \in 1..Len(hin) : hin[k].typ = msgRequest /\ hin[k].kid # LocalKeyID}

\* The handler has read a Request for another keyID, the last frame it read.
ReadWrongRecipient == hrd \in WrongRecipient

\* C16, no answer: no Response carries the RequestID of a Request for another
\* keyID.
C16_NeverAnswered ==
    \A k \in WrongRecipient : \A j \in 1..Len(hout) : hout[j] # hin[k].id

\* C16, the step: reading a Request for another keyID, the handler writes
\* nothing and returns, which closes the stream.
C16_Step ==
    hrd' = hrd + 1 /\ (hrd + 1) \in WrongRecipient => hpc' = "closed" /\ hout' = hout

\* C16, the far end: when its session dies, every request that was pending
\* on it has failed with "connection closed", the one for another keyID
\* among them.
C16_PendingFailed ==
    /\ [][idead' /\ ~idead => \A r \in iwait : ires'[r] = "connection closed"]_vars
    /\ [](ReadWrongRecipient /\ idead =>
            iwait = {} /\ ires[hin[hrd].id] = "connection closed")

\* C16: a Request for another keyID than that of this node is never
\* answered; the handler closes the stream on reading it, and from then on
\* the requests pending on the far end's session fail with "connection
\* closed": none is left waiting.
C16_WrongRecipient ==
    /\ []C16_NeverAnswered
    /\ [][C16_Step]_vars
    /\ C16_PendingFailed
    /\ ReadWrongRecipient ~> (idead /\ iwait = {})

\* The handler answered the first Request and closed the stream on the
\* second, which was for another keyID; at the far end the first call got
\* its Response and the second "connection closed".
C16_Witness ==
    /\ ReadWrongRecipient
    /\ hpc = "closed"
    /\ idead
    /\ Len(hout) = 1
    /\ ires[hin[hrd].id] = "connection closed"
    /\ \E r \in InReqIds : ires[r] = "response"


\* The far end has written its Goodbye on the open session.
GoodbyeSent == \E k \in 1..Len(hin) : hin[k].typ = msgGoodbye

\* The handler has read the Goodbye, the last frame it read.
GoodbyeRead == hrd > 0 /\ hin[hrd].typ = msgGoodbye

\* The nickname the pool knows the sender of the Goodbye by.
GoodbyeNick == TableGet(hin[hrd].sender)

\* C15, the steps of the handler on a Goodbye: the session the pool holds for
\* the sender is taken out of the pool; failAll marks it dead and its waiter
\* gets "connection closed"; the stream is closed.
C15_Step ==
    /\ hpc = "remove" /\ hpc' = "failAll" /\ TableHas(hin[hrd].sender) =>
        /\ GoodbyeNick \notin DOMAIN sessions'
        /\ GoodbyeNick \in DOMAIN sessions =>
            hrm' = sessions[GoodbyeNick] /\ sTo[hrm'] = GoodbyeNick
    /\ hpc = "failAll" /\ hpc' = "closed" /\ hrm # None =>
        /\ ~sAlive'[hrm] /\ ~mwait'[hrm]
        /\ mwait[hrm] => mres'[hrm] = "connection closed"

\* C15, the step of the far end after its Goodbye: RemoveSession fails its
\* session, and every waiter gets "connection closed".
C15_FarStep ==
    ipc = "bye" /\ ipc' = "gone" =>
        /\ idead' /\ iwait' = {}
        /\ \A r \in iwait : ires'[r] = "connection closed"

\* C15, afterwards: once the handler is through with the Goodbye, the pool
\* has no session for the sender, the session taken out is dead and nobody
\* waits on it.
C15_TornDown ==
    GoodbyeRead /\ hpc = "closed" =>
        /\ TableHas(hin[hrd].sender) => GoodbyeNick \notin DOMAIN sessions
        /\ hrm # None => ~sAlive[hrm] /\ ~mwait[hrm]

ServerID == NumStreams + 1

\* C21: every RegisterOK frame the server has written carries the identifier
\* of the discovery node itself, not that of the registering client.
C21_RegisterOKCarriesServerID ==
    \A s \in ServerStreams : \A k \in 1..Len(out[s]) :
        out[s][k].typ = MsgRegisterOK => out[s][k].peer = ServerID

\* The handler of stream s has written RegisterOK and PeerList: its peer is
\* registered, and the handler is in broadcastJoined or blocked in Read.
Registered(s) == spc[s] \in {"bjoin", "bjoinW", "wait"}

\* The handler of stream s is past its removePeer of line 149.
LeftPCs == {"bleft", "bleftW", "done"}

\* The push-streams of the streams map.
MapStreams(m) == {m[n] : n \in DOMAIN m}

\* C22, the removal: the step that follows the failed Read takes the nickname
\* out of both maps.
C22_RemoveStep ==
    \A s \in ServerStreams :
        (spc[s] = "wait" /\ spc'[s] # "wait") =>
            /\ broken[s]
            /\ spc'[s] = "bleft"
            /\ reg[s].Nickname \notin DOMAIN online'
            /\ reg[s].Nickname \notin DOMAIN streams'

\* C22, the broadcast: broadcastLeft starts from the push-streams the map
\* holds, every step of it writes PeerLeft(nickname) to one stream it has
\* still to write (nothing reaches a stream whose remote end is gone), and it
\* ends when none is left.
C22_LeftStep ==
    \A s \in ServerStreams :
        (spc[s] \in {"bleft", "bleftW"} /\ <<spc[s], targets[s]>> # <<spc'[s], targets'[s]>>) =>
            LET T == IF spc[s] = "bleft" THEN MapStreams(streams) ELSE targets[s]
                U == IF spc'[s] = "bleftW" THEN targets'[s] ELSE {}
                left == Frame(MsgPeerLeft, reg[s].Nickname, None, {}, "")
            IN  /\ spc'[s] \in {"bleftW", "done"}
                /\ U \subseteq T
                /\ Cardinality(T \ U) = IF T = {} THEN 0 ELSE 1
                /\ \A t \in ServerStreams :
                       out'[t] = IF t \in T \ U /\ ~broken[t]
                                 THEN Append(out[t], left) ELSE out[t]
                /\ spc'[s] = "done" <=> U = {}

\* C22, the maps after the removal: the stream of a handler past its
\* removePeer is in neither map, and its nickname is in the maps only if
\* another stream has registered it since.
C22_Removed ==
    \A s \in ServerStreams :
        (spc[s] \in LeftPCs /\ reg[s] # NoReg /\ fail[s] = "") =>
            /\ s \notin MapStreams(streams)
            /\ \A n \in DOMAIN online : online[n].PeerID # RemotePeer(s)

\* C22, liveness: a registered peer whose stream has failed is removed and its
\* PeerLeft broadcast to the end.
C22_Eventually ==
    \A s \in ServerStreams :
        (Registered(s) /\ broken[s]) ~> (spc[s] = "done" /\ targets[s] = {})

\* C22: once the stream of a registered peer reaches EOF or a read error the
\* server eventually removes it from the online and streams maps and writes
\* PeerLeft(nickname) to every push-stream that remains; after the removal the
\* nickname can register again.
C22_PeerLeftOnEOF ==
    /\ [][C22_RemoveStep /\ C22_LeftStep]_vars
    /\ []C22_Removed
    /\ C22_Eventually

\* C22 witness: alice was registered on one stream, the stream failed, alice
\* was removed and PeerLeft(alice) written to a stream that remained; alice
\* has registered again on another stream since.
C22_Witness ==
    \E s, t, u \in ServerStreams :
        /\ s # t /\ s # u
        /\ spc[s] = "done" /\ reg[s].Nickname = "alice" /\ fail[s] = ""
        /\ Len(out[s]) >= 2
        /\ reg[u].Nickname = "alice" /\ Registered(u)
        /\ \E k \in 1..Len(out[t]) :
              out[t][k] = Frame(MsgPeerLeft, "alice", None, {}, "")

\* C23: for every message type of the discovery and of the session codec,
\* the frame of an encoded message is read and decoded to the same tag and
\* the same message, field for field; the peers of a PeerList come back in
\* their order.
C23_RoundTrip ==
    wop = "decoded" => wgot = [typ |-> wmsg.typ, dec |-> Decoded(wmsg.m)]

\* C23 witness: a PeerList of two different peers has been decoded.
C23_Witness ==
    /\ wop = "decoded"
    /\ wcodec = "node"
    /\ wmsg.typ = MsgPeerList
    /\ Len(wmsg.m.Peers) = 2
    /\ wmsg.m.Peers[1] # wmsg.m.Peers[2]
    /\ ~wgot.dec.err

\* The length the header of the stream declares, if the header is there.
WireDeclared == BigEndian(SubSeq(wire, 1, HdrSize))

\* The stream handed to the reader ends before the header is complete, or
\* before the bytes the header declares.
WireShort == Len(wire) < HdrSize \/ Len(wire) - HdrSize < WireDeclared

\* C26 as stated: a reader fails on a short read, on a message whose declared
\* length is below 1, and on a declared length above the maximum the codec
\* enforces.  Whatever that maximum, the largest length a header can declare
\* is above it, or nothing is oversize.
C26_ReadersFail ==
    wop = "read" =>
        /\ WireShort => wgot.err
        /\ (Len(wire) >= HdrSize /\ wcodec \in {"readMsg", "ReadMsg"} /\ WireDeclared < 1)
              => wgot.err
        /\ (Len(wire) >= HdrSize /\ WireDeclared = MaxDeclared) => wgot.err

FirstHashByte == sha256Sum256(kone.HPKEPubBytes)[1]

\* C25: the KeyID of an accepted seed is never zero; it is the first byte of
\* the SHA-256 of the KEM public key, or 1 if that byte is 0.
C25_KeyIDNonZero ==
    (kpc # "idle" /\ ~kone.err) =>
        /\ kone.KeyID # 0
        /\ kone.KeyID = IF FirstHashByte = 0 THEN 1 ELSE FirstHashByte

\* C25 witness: the hash of the KEM public key starts with a zero byte, and
\* the KeyID is 1.
C25_Witness == kpc # "idle" /\ ~kone.err /\ FirstHashByte = 0 /\ kone.KeyID = 1

\* Registrations and disconnects have stopped and everything they started
\* has run to its end: no handler has a step left, and every client that is
\* still there has read every frame written to it.
Quiescent ==
    \A s \in ServerStreams :
        /\ spc[s] \in {"read", "wait", "done"}
        /\ spc[s] = "read" => ~broken[s]
        /\ spc[s] = "wait" => ~broken[s]
        /\ (~broken[s] /\ rpc[s] # "failed") => rrd[s] = Len(out[s])

\* The clients that are connected: registered, and their stream alive.
ConnectedClients == {s \in ServerStreams : spc[s] = "wait" /\ ~broken[s] /\ rpc[s] = "loop"}

\* C27: once registrations and disconnects have stopped, the tracked set of
\* every connected client is the set of the nicknames online at the node
\* other than its own.
C27_RosterConverges ==
    Quiescent =>
        \A s \in ConnectedClients :
            DOMAIN rtab[s] = (DOMAIN online) \ {reg[s].Nickname}

\* Task t has written a part of a frame to the push-stream and has the rest
\* of it still to write.
MidFrame(t) == fq[t] # <<>> /\ Head(fq[t]).part \in {"tag", "payload"}

\* C28: no two tasks of the server are writing a frame to the same
\* push-stream at the same time, and on the stream the length, the tag and
\* the payload of a frame follow each other with nothing of another frame in
\* between.
C28_FramesWhole ==
    /\ \A t, u \in FrameWriters : (MidFrame(t) /\ MidFrame(u)) => t = u
    /\ \A i \in 1..Len(fwire) :
          fwire[i].part = "len" =>
              /\ i + 1 <= Len(fwire) =>
                    fwire[i + 1] = [fwire[i] EXCEPT !.part = "tag"]
              /\ i + 2 <= Len(fwire) =>
                    fwire[i + 2] = [fwire[i] EXCEPT !.part = "payload"]

\* The nickname the handshake of the inbound stream authenticated is n.
Authenticated(n) == TableHas(FarNick) /\ TableGet(FarNick) = n

\* C29, the steps of the handler on a Goodbye: RemoveSession takes no session
\* out of the pool but the one to the authenticated nickname, and failAll
\* aborts the waiters of no other session.
C29_Step ==
    /\ hpc = "remove" /\ hpc' = "failAll" =>
        \A n \in DOMAIN sessions :
            ~Authenticated(n) => n \in DOMAIN sessions' /\ sessions'[n] = sessions[n]
    /\ hpc = "failAll" /\ hpc' = "closed" /\ hrm # None /\ ~Authenticated(sTo[hrm]) =>
        sAlive'[hrm] = sAlive[hrm] /\ mres' = mres

\* C29: a Goodbye received on an inbound stream whose handshake authenticated
\* nickname X removes only the session of this node to X; a Goodbye that
\* carries another nickname Y neither removes the session to Y nor aborts
\* its waiters.
C29_GoodbyeOnlyOwn == [][C29_Step]_vars

\* bob authenticated, his Goodbye named carol, and the session to carol is
\* out of the pool, dead, its waiter failed with "connection closed".
C29_Witness ==
    /\ Authenticated("bob")
    /\ GoodbyeRead
    /\ hin[hrd].sender = NickBytes["carol"]
    /\ hpc = "closed"
    /\ hrm # None
    /\ sTo[hrm] = "carol"
    /\ ~sAlive[hrm]
    /\ mres[hrm] = "connection closed"
    /\ "carol" \notin DOMAIN sessions


\* C30, the tables: the peer table holds a nickname exactly when the tracked
\* table of the discovery client holds it.
C30_SameNicknames == DOMAIN peerTable = DOMAIN tracked

\* C30, the step: when a node withdraws a nickname that another node still
\* reports, the nickname stays in the peer table and a session to it stays
\* in the pool.
C30_Step ==
    \A nick \in TrackNicks :
        (nick \in DOMAIN tracked /\ nick \in DOMAIN tracked') =>
            /\ nick \in DOMAIN peerTable => nick \in DOMAIN peerTable'
            /\ nick \in outbound => nick \in outbound'

\* C30: the peer table of the session layer holds a nickname exactly when
\* the tracked table of the discovery client holds it; a PeerLeft for a
\* nickname from one node while another node still reports it (it stays
\* tracked, SeenBy not empty) removes it neither from the peer table nor
\* from the pool.
C30_PeerTableTracks == []C30_SameNicknames /\ [][C30_Step]_vars

\* bob was reported by two nodes, a session to him was open, one node
\* withdrew him: he is still tracked, seen by the other node, but he is in
\* the peer table no more and the session to him is gone.
C30_Witness ==
    /\ "bob" \in DOMAIN tracked
    /\ tracked["bob"].SeenBy # {}
    /\ \E N \in Nodes : "bob" \in reported[N]
    /\ "bob" \notin DOMAIN peerTable
    /\ "bob" \notin outbound

\* The PeerList frames written to stream s.
PeerListsOn(s) == {k \in 1..Len(out[s]) : out[s][k].typ = MsgPeerList}

\* C31, the insertion: in the step that inserts the peer of stream s, the
\* list kept for it is the online map as it stood, the nickname was not in
\* that map, and the map gains exactly that nickname.
C31_Step ==
    \A s \in ServerStreams :
        spc[s] = "lock" /\ spc'[s] = "sendOK" =>
            /\ plist'[s] = {online[n] : n \in DOMAIN online}
            /\ reg[s].Nickname \notin DOMAIN online
            /\ DOMAIN online' = DOMAIN online \cup {reg[s].Nickname}
            /\ \A n \in DOMAIN online : online'[n] = online[n]

\* C31, the write: the PeerList written to stream s is the list kept at the
\* insertion.
C31_Send ==
    \A s \in ServerStreams :
        spc[s] = "sendList" /\ spc'[s] = "bjoin" =>
            out'[s] = Append(out[s],
                Frame(MsgPeerList, "", None, {p.Nickname : p \in plist[s]}, ""))

\* C31, the frames: no PeerList names the peer it is sent to.
C31_NotSelf ==
    \A s \in ServerStreams : \A k \in PeerListsOn(s) :
        reg[s].Nickname \notin out[s][k].list

\* C31: the PeerList sent to a newly registered peer is the set of peers that
\* were online at the instant the new peer was inserted: it never contains
\* the new peer, it contains every peer of the online map at that instant,
\* and snapshot and insertion are one step under the write lock.
C31_PeerListSnapshot ==
    /\ []C31_NotSelf
    /\ [][C31_Step]_vars
    /\ [][C31_Send]_vars

\* A peer registered while another was online, and its PeerList names that
\* other peer.
C31_Witness ==
    \E s \in ServerStreams : \E k \in PeerListsOn(s) :
        /\ out[s][k].list # {}
        /\ reg[s].Nickname \notin out[s][k].list

\* The nicknames PeerJoined was written to, and those the write reached.
JoinedTried == {jlog[k].to : k \in 1..Len(jlog)}
JoinedReached == {jlog[k].to : k \in {i \in 1..Len(jlog) : jlog[i].ok}}

\* C32, while the broadcast runs: PeerJoined is never written to the stream
\* of the new peer, only to streams of the map, and to each at most once.
C32_NotOwn ==
    /\ jp \notin JoinedTried
    /\ JoinedTried \subseteq jmap
    /\ \A i, k \in 1..Len(jlog) : jlog[i].to = jlog[k].to => i = k

\* C32, when the broadcast returns: PeerJoined was written to every other
\* nickname of the map, and it reached each of them whose write did not
\* fail, whatever failed before.
C32_AllOthers ==
    jpc = "done" =>
        /\ JoinedTried = jmap \ {jp}
        /\ jmap \ (jbroken \cup {jp}) \subseteq JoinedReached

\* C32: after peer p registers, PeerJoined(p) is written to the push-stream
\* of every other peer of the streams map and never to that of p; a write
\* that fails does not keep the broadcast from the streams that are left.
C32_JoinedToOthers == C32_NotOwn /\ C32_AllOthers

\* The broadcast returned; its first write failed and a later one reached
\* its stream.
C32_Witness ==
    /\ jpc = "done"
    /\ Len(jlog) >= 2
    /\ ~jlog[1].ok
    /\ jlog[Len(jlog)].ok
    /\ jp \in jmap

\* Task t is blocked in the receive of DoRequest (line 157): its channel is
\* empty and open.
Blocked(t) == dpc[t] = "await" /\ chBuf[did[t]] = None /\ ~chClosed[did[t]]

\* The slot of task t is in the pending map under its reqId.
SlotPresent(t) == did[t] \in DOMAIN pending /\ pending[did[t]] = did[t]

\* Every slot of the pending map belongs to a call that has inserted it and
\* has not returned; the calls that have returned hold no reqId.
C33_SlotsHaveCallers ==
    /\ \A r \in DOMAIN pending :
        \E t \in ReqTasks : dpc[t] \in {"write", "await"} /\ did[t] = r
    /\ \A t \in ReqTasks : dpc[t] = "idle" => did[t] = None

\* C33 as stated: whenever a DoRequest caller is blocked awaiting its slot,
\* the slot is in the pending map under its reqId; whenever a reqId is in
\* the map, a caller for it exists that has not returned; no slot stays in
\* the map after its caller returned, the write-error path included.
C33_PendingIffWaiter ==
    /\ \A t \in ReqTasks : Blocked(t) => SlotPresent(t)
    /\ C33_SlotsHaveCallers

\* C33, amended: a blocked caller's slot is in the pending map under its
\* reqId, or the reader has just taken it out of the map and is about to
\* put the Response into it; the rest as stated.
C33_PendingOrInDelivery ==
    /\ \A t \in ReqTasks :
        Blocked(t) => SlotPresent(t) \/ (rdpc = "deliver" /\ rdch = did[t] /\ rdresp = did[t])
    /\ C33_SlotsHaveCallers

\* A caller is blocked while the reader holds its slot, taken out of the
\* map, and another call has returned from a failed write.
C33_Witness ==
    \E t \in ReqTasks :
        /\ Blocked(t)
        /\ ~SlotPresent(t)
        /\ rdpc = "deliver" /\ rdch = did[t]
        /\ dres.kind = "write error"

\* The channels the pending map holds.
PendingChannels == {pending[k] : k \in DOMAIN pending}

\* C34, the flag and the stream: the stream is closed here exactly when the
\* flag is set, and Close was not called on it a second time.
C34_ClosedOnce ==
    /\ sstream # "closed twice"
    /\ dead <=> sstream = "closed"

\* C34, the channels: every channel failAll finds in the pending map is
\* open, and so is the one the reader has taken out to deliver, which is
\* empty and no longer in the map; so no close is a second close and no
\* send finds its channel closed.
C34_ChannelsOpen ==
    /\ \A c \in PendingChannels : ~chClosed[c] /\ chBuf[c] = None
    /\ rdpc = "deliver" =>
        /\ ~chClosed[rdch]
        /\ chBuf[rdch] = None
        /\ rdch \notin PendingChannels

\* C34, the steps: the flag never goes back to false, and the stream is
\* closed in the step that sets the flag and in no other.
C34_Step ==
    /\ dead => dead'
    /\ (sstream # "closed" /\ sstream' = "closed") <=> (~dead /\ dead')

\* C34: teardown is idempotent under concurrency.  With failAll called by
\* the reader, by RemoveSession and by AnnounceDisconnexion, also while the
\* reader delivers a Response, the dead flag goes from false to true once
\* and never back, the stream is closed once, and no channel is closed
\* twice or sent on after it was closed.
C34_TeardownIdempotent ==
    /\ []C34_ClosedOnce
    /\ []C34_ChannelsOpen
    /\ [][C34_Step]_vars

\* RemoveSession and AnnounceDisconnexion have both gone through failAll
\* while the reader holds a channel it has still to deliver to.
C34_Witness ==
    /\ fpc["remover"] = "done"
    /\ fpc["announcer"] = "done"
    /\ rdpc = "deliver"
    /\ dead
    /\ sstream = "closed"

\* C35, the steps of NewSession: a task leaves GetSession for a dial only
\* when the pool holds no alive session for the nickname; the dial and the
\* handshake happen only then; and the new session is stored in the place
\* of no session or of a dead one.
C35_Step ==
    \A t \in PoolTasks :
        /\ (ppc[t] = "idle" /\ ppc'[t] = "dial") => ~isAliveIn(pto'[t])
        /\ (ppc[t] = "dial" /\ ppc'[t] = "store") => ~isAliveIn(pto[t])
        /\ (ppc[t] = "store" /\ ppc'[t] = "idle") =>
            /\ ~isAliveIn(pto[t])
            /\ sessions'[pto[t]] = pnew[t]

\* C35: GetSession never returns a dead session; a request to a peer issued
\* while an alive session to its nickname is stored reuses it without dial
\* or handshake; a new dial happens only when the pool holds no session or a
\* dead one for the nickname, and the new session replaces that entry.
C35_ReuseOrDial == [][C35_Step]_vars

\* The handler has gone past the first frame: it looks the sender up, is in
\* its loop, or has read or answered a frame of the loop.
PastHello == hpc \in {"table", "loop", "remove", "failAll"} \/ hrd > 0 \/ hout # <<>>

\* C36, the loop: the handler is past the first frame only if that frame
\* had the tag Hello and its payload decoded and verified.
C36_HelloFirst ==
    PastHello =>
        /\ first = msgHello
        /\ decodeHelloOK(hello)
        /\ verifySignedHello(chal, hello)

\* C36, the step: a first frame with another tag closes the stream, with a
\* console or without.
C36_Step == hpc = "hello" /\ first' \notin {None, msgHello} => hpc' = "closed"

\* C36: the responder processes no Request or Goodbye on an inbound stream
\* unless the first frame it read after the Challenge had the tag Hello and
\* that Hello decoded and verified; a first frame with any other tag makes
\* it close the stream, whether or not the pool has a console.
C36_OnlyAfterHello == []C36_HelloFirst /\ [][C36_Step]_vars

\* Frame k of the inbound stream is a Request for this node that opens.
Answerable(k) ==
    hin[k].typ = msgRequest /\ hin[k].kid = LocalKeyID /\ hin[k].opens

\* The RequestIDs of the answerable Requests among the first n frames, in
\* the order of the frames.
RECURSIVE AnswerableIds(_)
AnswerableIds(n) ==
    IF n = 0 THEN <<>>
    ELSE IF Answerable(n) THEN Append(AnswerableIds(n - 1), hin[n].id)
    ELSE AnswerableIds(n - 1)

\* C37, the Responses written: one for each answerable Request read, in the
\* order read, the Request read last being the only one that may still be
\* without its Response.
C37_OnePerRequest ==
    hout = AnswerableIds(hrd) \/ (hrd > 0 /\ hout = AnswerableIds(hrd - 1))

\* C37, the steps of the loop: when a frame is read every Request read
\* before it has its Response; the handler that stays in the loop after an
\* answerable Request has written the Response with its RequestID in the
\* same step; a frame that is neither a Request nor a Goodbye leaves the
\* Responses as they are and the stream open.
C37_Step ==
    hrd' = hrd + 1 =>
        /\ hout = AnswerableIds(hrd)
        /\ Answerable(hrd + 1) /\ hpc' = "loop" => hout' = Append(hout, hin[hrd + 1].id)
        /\ hin[hrd + 1].typ \notin {msgRequest, msgGoodbye} =>
            hout' = hout /\ hpc' = "loop" /\ hpc = "loop"

\* C37: in the loop of the responder, for every Request that passes the
\* recipient check and is opened, exactly one Response with the RequestID of
\* that Request is written before the next frame is read, so Responses leave
\* in the order the Requests arrived; a frame whose tag is neither Request
\* nor Goodbye is ignored, without a Response and without closing the stream.
C37_ResponsesInOrder == []C37_OnePerRequest /\ [][C37_Step]_vars

\* Two Requests with a frame of another tag between them were read, and the
\* two Responses were written in the order of the Requests.
C37_Witness ==
    /\ hrd = 3
    /\ Answerable(1) /\ hin[2].typ = msgResponse /\ Answerable(3)
    /\ hout = <<hin[1].id, hin[3].id>>
    /\ hpc = "loop"

\* Task t has made a call of Write of its frame and has calls left to make.
SwMidFrame(t) == swq[t] # <<>> /\ Head(swq[t]).part \in {"tag", "payload"}

\* C38, the tasks: a task that is inside writeMsg holds the session's
\* write-exclusion token, and no two tasks are in the middle of a frame.
C38_OneWriter ==
    /\ \A t \in SessionWriters : swpc[t] \in {"write", "unlock"} => writeMu = t
    /\ \A t, u \in SessionWriters : (SwMidFrame(t) /\ SwMidFrame(u)) => t = u

\* C38, the stream: the length of a frame is followed by the tag and the
\* payload of the same frame by the same task.
C38_FramesWhole ==
    \A i \in 1..Len(swire) :
        swire[i].part = "len" =>
            /\ i + 1 <= Len(swire) => swire[i + 1] = [swire[i] EXCEPT !.part = "tag"]
            /\ i + 2 <= Len(swire) => swire[i + 2] = [swire[i] EXCEPT !.part = "payload"]

\* C38: on one outbound session no two frames are being written at the
\* same time: the Request frames of concurrent DoRequest calls and the
\* Goodbye of AnnounceDisconnexion are written holding the session's
\* write-exclusion token, so the length, tag and payload writes of
\* different frames never interleave.
C38_WritesSerialized == C38_OneWriter /\ C38_FramesWhole

\* Every task has written its frame: the Requests and, after them, the
\* Goodbye are on the stream, each of them whole.
C38_Witness ==
    /\ Len(swire) = 3 * Cardinality(SessionWriters)
    /\ swire[1].typ = msgRequest
    /\ swire[Len(swire)].typ = msgGoodbye
    /\ \A t \in SessionWriters : swpc[t] \in {"unlock", "done"}

(***************************************************************************)
(* C39  A Connect that fails leaves the client as it was.                  *)
(***************************************************************************)
\* The step is one of Connect for node N before the connection is stored.
ConnectStep(N) ==
    /\ ypc[N] \in {"idle", "failed", "stream", "sent", "ok"}
    /\ ypc'[N] \in {"stream", "sent", "ok", "failed"}
    /\ \/ ypc'[N] # ypc[N]
       \/ yn' # yn /\ \A M \in Nodes : ypc'[M] = ypc[M]

\* After an error return: no entry in the nodes map, the stream (if one was
\* opened) is closed, and a RegisterFail is reported with its reason.
C39_Failed ==
    \A N \in Nodes :
        ypc[N] = "failed" =>
            /\ yerr[N] # NoError
            /\ N \notin ynodes
            /\ ystream[N] = IF yerr[N].msg \in {"connect to node", "open stream"}
                            THEN "none" ELSE "closed"
            /\ yframe[N].typ = MsgRegisterFail <=> yerr[N].msg = "registration failed"
            /\ yerr[N].msg = "registration failed" => yerr[N].reason = yframe[N].reason

\* No step of Connect up to an error return, and none before the PeerList is
\* decoded, touches the nodes map, the tracked table, the lock, the read
\* loops or the handler.
C39_Step ==
    \A N \in Nodes :
        ConnectStep(N) =>
            /\ ynodes' = ynodes
            /\ ypeers' = ypeers
            /\ ymu' = ymu
            /\ yloops' = yloops
            /\ ycbs' = ycbs

\* C39: Connect fails without side effects: on a RegisterFail it returns an
\* error with the reason, on a frame after the RegisterOK that is no PeerList
\* or does not decode it returns an error; in each failing case the stream is
\* closed, the nodes map and the tracked table are unchanged, no read loop is
\* started and no callback fires.
C39_ConnectFailsClean == []C39_Failed /\ [][C39_Step]_vars

\* Node N has refused the registration, and Connect has returned the error
\* with the stream closed, while another node is connected and has reported
\* peers.
C39_Witness ==
    \E N, M \in Nodes :
        /\ ypc[N] = "failed"
        /\ yerr[N] = Errorf("registration failed", "nickname already in use")
        /\ ystream[N] = "closed"
        /\ ypc[M] = "loop"
        /\ M \in ynodes
        /\ DOMAIN ypeers # {}

(***************************************************************************)
(* C40  Close ends every read loop.                                        *)
(***************************************************************************)
\* The read loop of node N is running or in its deferred function.
LoopRunning(N) ==
    \/ ypc[N] \in {"loop", "defer", "cbDisc"}
    \/ ypc[N] = "cbJoined" /\ yret[N] = "loop"

\* OnNodeDisconnected has run once for every read loop that has ended, and
\* not for one that has not.
C40_OncePerLoop ==
    \A N \in Nodes :
        ycbs[N].disc = IF LoopRunning(N) THEN yloops[N] - 1 ELSE yloops[N]

\* The stream of a connection that Close has visited is closed.
C40_StreamsClosed == \A N \in Nodes : ycancel[N] => ystream[N] = "closed"

\* The connection to N that Close has visited ends: its read loop has
\* returned, its entry is deleted and OnNodeDisconnected has run.
C40_LoopEnds ==
    \A N \in Nodes : ycancel[N] ~> (ypc[N] = "idle" /\ N \notin ynodes)

\* Close, once it holds the lock, returns.
C40_CloseReturns == (yclose = "locked") ~> (yclose = "done")

\* C40: after Close every read loop of a connected node terminates: the
\* stream is closed, the entry is removed from the nodes map in the end,
\* OnNodeDisconnected fires exactly once per node, and Close does not
\* deadlock with a read loop that is exiting.
C40_CloseEndsLoops ==
    /\ []C40_OncePerLoop
    /\ []C40_StreamsClosed
    /\ C40_LoopEnds
    /\ C40_CloseReturns

\* Close has returned after closing two connections; both read loops have
\* ended, each with one OnNodeDisconnected, and the nodes map is empty.
C40_Witness ==
    /\ yclose = "done"
    /\ Cardinality(yclosed) >= 2
    /\ ynodes = {}
    /\ \A N \in yclosed : ypc[N] = "idle" /\ ycbs[N].disc = 1 /\ ycancel[N]

====
